---- MODULE Spec2Model ----
(***************************************************************************)
(* Tortuga-Node: the weekly scoring cycle of a fantasy box-office league.  *)
(*                                                                         *)
(* The model covers the ownership ledger (createOwnership and              *)
(* retireOwnership behind the acquisition-window guard), the award bonus   *)
(* applier, the week window calculators and the two computeWeek engines    *)
(* (the HTTP controller and the timezone-aware service).                   *)
(*                                                                         *)
(* Every handler is an async function over a shared MongoDB store: each    *)
(* `await` on the store is a point at which another request may run, so a  *)
(* handler is a small process with one action per store round-trip.        *)
(***************************************************************************)
EXTENDS Integers, Sequences, FiniteSets, TLC

VARIABLES
    ownerships,   \* MovieOwnership collection, in insertion order (_id = index)
    bonuses,      \* AwardBonus collection, in insertion order
    clock,        \* server time read by `new Date()`
    pc,           \* pc[p]: position of request p inside its handler
    req,          \* req[p]: the request's inputs and handler locals
    result,       \* result[p]: outcome sent to the client
    league,       \* the League document the season belongs to
    season,       \* the Season document
    revenues,     \* MovieWeeklyRevenue collection, in natural (storage) order
    studioWeeklyRevenue,   \* StudioWeeklyRevenue collection (derived snapshot)
    weeklyRanking          \* WeeklyRanking collection (derived snapshot)

vars == <<ownerships, bonuses, clock, pc, req, result, league, season,
          revenues, studioWeeklyRevenue, weeklyRanking>>

requestVars == <<pc, req, result>>
configVars  == <<league, season>>
computeVars == <<revenues, studioWeeklyRevenue, weeklyRanking>>

----------------------------------------------------------------------------
(* Bounds and fixed collections *)

MaxClock == 1                       \* server clock runs 0..MaxClock

Procs    == {"p1", "p2"}            \* concurrently served requests
Studios  == {"A", "B", "C"}
Movies   == {"M1", "M2", "M3"}
Seasons  == {"S1"}
Users    == {"owner", "ua", "ub"}

\* the inputs the ledger requests are drawn from
LedgerStudios == {"A", "B"}
LedgerMovies  == {"M1", "M2"}
LedgerUsers   == {"ua", "ub"}
AcquiredAts   == {0}

\* StudioOwner collection: (studioId, userId) links
StudioOwner == {[studioId |-> "A", userId |-> "ua"],
                [studioId |-> "B", userId |-> "ub"]}

NoDate == -1                        \* an unset Date field (retiredAt)
Times  == 0..MaxClock

Weekdays == 1..7                    \* Luxon: 1 = Monday ... 7 = Sunday
Hours    == 0..23
LocalTimes == [weekday : Weekdays, hour : Hours]

NoReq == [op |-> "none"]

----------------------------------------------------------------------------
(* Acquisition window guard *)

\* a plausible slip: weekdays numbered one too low (Monday taken for Tuesday)
allowedOffByOne(now) ==
    \/ now.weekday = 1
    \/ now.weekday = 2
    \/ now.weekday = 3
    \/ (now.weekday = 4 /\ now.hour < 20)

\* `allowed` of enforceAcquisitionWindow, on Luxon's weekday numbering
allowed(now) ==
    \/ now.weekday = 2
    \/ now.weekday = 3
    \/ now.weekday = 4
    \/ (now.weekday = 5 /\ now.hour < 20)

----------------------------------------------------------------------------
(* Store helpers *)

\* a plausible slip: the lookup only sees ownerships that are still active
findOwnershipActive(rows, seasonId, movieId) ==
    {i \in 1..Len(rows) : /\ rows[i].seasonId = seasonId
                          /\ rows[i].movieId = movieId
                          /\ rows[i].retiredAt = NoDate}

\* MovieOwnershipModel.findOne({seasonId, movieId}): ids of the matching rows
findOwnership(rows, seasonId, movieId) ==
    {i \in 1..Len(rows) : rows[i].seasonId = seasonId /\ rows[i].movieId = movieId}

\* the unique index {seasonId: 1, movieId: 1} rejects an insert of `row`
ownershipIndexRejects(rows, row) ==
    \E i \in 1..Len(rows) :
        rows[i].seasonId = row.seasonId /\ rows[i].movieId = row.movieId

\* StudioOwnerModel.findOne({studioId, userId}) finds a link
isStudioMember(studioId, userId) ==
    [studioId |-> studioId, userId |-> userId] \in StudioOwner

Finish(p, outcome) ==
    /\ pc' = [pc EXCEPT ![p] = "done"]
    /\ result' = [result EXCEPT ![p] = outcome]

Goto(p, label) ==
    /\ pc' = [pc EXCEPT ![p] = label]
    /\ UNCHANGED result

Free(p) == pc[p] \in {"idle", "done"}

----------------------------------------------------------------------------
(* POST /api/ownership: isAuth, enforceAcquisitionWindow, validation,      *)
(* createOwnership                                                         *)

\* the guard middleware: reads the league-local time, answers 403 or calls next()
enforceAcquisitionWindow(p, userId, seasonId, studioId, movieId, acquiredAt, now) ==
    /\ Free(p)
    /\ req' = [req EXCEPT ![p] = [op |-> "acquire", userId |-> userId,
                                  seasonId |-> seasonId, studioId |-> studioId,
                                  movieId |-> movieId, acquiredAt |-> acquiredAt,
                                  now |-> now]]
    /\ IF allowed(now)
          THEN /\ pc' = [pc EXCEPT ![p] = "acqMembership"]
               /\ result' = [result EXCEPT ![p] = "pending"]
          ELSE Finish(p, "WindowLocked")
    /\ UNCHANGED <<ownerships, bonuses, clock, configVars, computeVars>>

\* createOwnership up to the membership check (season, studio and movie exist)
createOwnershipMembership(p) ==
    /\ pc[p] = "acqMembership"
    /\ IF isStudioMember(req[p].studioId, req[p].userId)
          THEN Goto(p, "acqFindExisting")
          ELSE Finish(p, "Forbidden")
    /\ UNCHANGED <<ownerships, bonuses, clock, req, configVars, computeVars>>

\* the conflict check: findOne({seasonId, movieId})
createOwnershipFindExisting(p) ==
    /\ pc[p] = "acqFindExisting"
    /\ IF findOwnership(ownerships, req[p].seasonId, req[p].movieId) # {}
          THEN Finish(p, "Conflict")
          ELSE Goto(p, "acqCreate")
    /\ UNCHANGED <<ownerships, bonuses, clock, req, configVars, computeVars>>

newOwnership(r) ==
    [seasonId |-> r.seasonId, studioId |-> r.studioId, movieId |-> r.movieId,
     acquiredAt |-> r.acquiredAt, retiredAt |-> NoDate, refundApplied |-> FALSE]

\* MovieOwnershipModel.create: the unique index makes a duplicate insert
\* throw, and the handler's catch answers 500
createOwnershipCreate(p) ==
    /\ pc[p] = "acqCreate"
    /\ IF ownershipIndexRejects(ownerships, newOwnership(req[p]))
          THEN /\ Finish(p, "InternalError")
               /\ UNCHANGED ownerships
          ELSE /\ ownerships' = Append(ownerships, newOwnership(req[p]))
               /\ Finish(p, "Created")
    /\ UNCHANGED <<bonuses, clock, req, configVars, computeVars>>

----------------------------------------------------------------------------
(* PATCH /api/ownership/:id/retire: isAuth, retireOwnership *)

\* a plausible slip: the already-retired check is missing
alreadyRetiredUnchecked(doc) == FALSE

\* `if (ownership.retiredAt)`
alreadyRetired(doc) == doc.retiredAt # NoDate

\* findById, the not-found check and the already-retired check; `now` is the
\* league-local time at which the request arrives, which no step reads
retireOwnershipLoad(p, userId, id, now) ==
    /\ Free(p)
    /\ IF id \notin 1..Len(ownerships)
          THEN /\ req' = [req EXCEPT ![p] = [op |-> "retire", userId |-> userId,
                                             id |-> id, doc |-> NoReq,
                                             now |-> now]]
               /\ Finish(p, "NotFound")
          ELSE /\ req' = [req EXCEPT ![p] = [op |-> "retire", userId |-> userId,
                                             id |-> id, doc |-> ownerships[id],
                                             now |-> now]]
               /\ IF alreadyRetired(ownerships[id])
                     THEN Finish(p, "Conflict")
                     ELSE /\ pc' = [pc EXCEPT ![p] = "retMembership"]
                          /\ result' = [result EXCEPT ![p] = "pending"]
    /\ UNCHANGED <<ownerships, bonuses, clock, configVars, computeVars>>

\* mutant of retireOwnershipMembership: the membership lookup is not made
retireOwnershipMembershipSkipped(p) ==
    /\ pc[p] = "retMembership"
    /\ Goto(p, "retSave")
    /\ UNCHANGED <<ownerships, bonuses, clock, req, configVars, computeVars>>

retireOwnershipMembership(p) ==
    /\ pc[p] = "retMembership"
    /\ IF isStudioMember(req[p].doc.studioId, req[p].userId)
          THEN Goto(p, "retSave")
          ELSE Finish(p, "Forbidden")
    /\ UNCHANGED <<ownerships, bonuses, clock, req, configVars, computeVars>>

\* ownership.retiredAt = new Date(); ownership.save() writes the modified path
retireOwnershipSave(p, t) ==
    /\ pc[p] = "retSave"
    /\ t >= clock
    /\ clock' = t
    /\ ownerships' = [ownerships EXCEPT ![req[p].id].retiredAt = t]
    /\ req' = [req EXCEPT ![p].doc.retiredAt = t]
    /\ Finish(p, "Retired")
    /\ UNCHANGED <<bonuses, configVars, computeVars>>

----------------------------------------------------------------------------

(* POST /api/seasons/:id/bonuses/apply: isAuth, validation, applyAwardBonus *)

\* league.awardCategories.find(c => c.key === categoryKey && c.enabled)
\* a plausible slip: the lookup does not test `enabled`
findCategoryByKeyOnly(categories, categoryKey) ==
    {i \in 1..Len(categories) : categories[i].key = categoryKey}

\* awardCategories.find(c => c.key === categoryKey && c.enabled)
findCategory(categories, categoryKey) ==
    {i \in 1..Len(categories) :
        categories[i].key = categoryKey /\ categories[i].enabled}

isLeagueManager(lg, userId) ==
    lg.ownerId = userId \/ userId \in lg.commissionerIds

\* AwardBonusModel.findOne on the exact tuple
findBonus(rows, seasonId, studioId, movieId, categoryKey, res) ==
    {i \in 1..Len(rows) :
        /\ rows[i].seasonId = seasonId /\ rows[i].studioId = studioId
        /\ rows[i].movieId = movieId /\ rows[i].categoryKey = categoryKey
        /\ rows[i].result = res}

\* a plausible slip: the unique index is not declared
bonusIndexMissing(rows, row) == FALSE

\* the unique index {seasonId, studioId, movieId, categoryKey, result}
bonusIndexRejects(rows, row) ==
    findBonus(rows, row.seasonId, row.studioId, row.movieId,
              row.categoryKey, row.result) # {}

\* season and league lookups, the owner/commissioner check, the category
\* lookup and the choice of points
applyAwardBonusResolve(p, userId, seasonId, categoryKey, movieId, res) ==
    /\ Free(p)
    /\ LET cfg == findCategory(league.awardCategories, categoryKey)
           c   == league.awardCategories[CHOOSE i \in cfg : \A k \in cfg : i <= k]
       IN  /\ req' = [req EXCEPT ![p] =
                        [op |-> "award", userId |-> userId, seasonId |-> seasonId,
                         categoryKey |-> categoryKey, movieId |-> movieId,
                         result |-> res, studioId |-> "none",
                         points |-> IF cfg = {} THEN 0
                                    ELSE IF res = "win" THEN c.winPoints
                                    ELSE c.nominationPoints]]
           /\ IF ~isLeagueManager(league, userId) THEN Finish(p, "Forbidden")
              ELSE IF cfg = {} THEN Finish(p, "BadRequest")
              ELSE /\ pc' = [pc EXCEPT ![p] = "awdFindOwnership"]
                   /\ result' = [result EXCEPT ![p] = "pending"]
    /\ UNCHANGED <<ownerships, bonuses, clock, configVars, computeVars>>

\* MovieOwnershipModel.findOne({seasonId, movieId}): the season-level owner
applyAwardBonusFindOwnership(p) ==
    /\ pc[p] = "awdFindOwnership"
    /\ LET found == findOwnership(ownerships, req[p].seasonId, req[p].movieId)
       IN  IF found = {}
              THEN /\ Finish(p, "BadRequest")
                   /\ UNCHANGED req
              ELSE /\ req' = [req EXCEPT ![p].studioId =
                                 ownerships[CHOOSE i \in found : TRUE].studioId]
                   /\ Goto(p, "awdFindExisting")
    /\ UNCHANGED <<ownerships, bonuses, clock, configVars, computeVars>>

applyAwardBonusFindExisting(p) ==
    /\ pc[p] = "awdFindExisting"
    /\ IF findBonus(bonuses, req[p].seasonId, req[p].studioId, req[p].movieId,
                    req[p].categoryKey, req[p].result) # {}
          THEN Finish(p, "Conflict")
          ELSE Goto(p, "awdCreate")
    /\ UNCHANGED <<ownerships, bonuses, clock, req, configVars, computeVars>>

newBonus(r) ==
    [seasonId |-> r.seasonId, studioId |-> r.studioId, movieId |-> r.movieId,
     categoryKey |-> r.categoryKey, result |-> r.result, points |-> r.points]

\* AwardBonusModel.create: a duplicate tuple makes the unique index throw,
\* and the handler's catch answers 500
applyAwardBonusCreate(p) ==
    /\ pc[p] = "awdCreate"
    /\ IF bonusIndexRejects(bonuses, newBonus(req[p]))
          THEN /\ Finish(p, "InternalError")
               /\ UNCHANGED bonuses
          ELSE /\ bonuses' = Append(bonuses, newBonus(req[p]))
               /\ Finish(p, "Created")
    /\ UNCHANGED <<ownerships, clock, req, configVars, computeVars>>

----------------------------------------------------------------------------
(* Instants and league time zones                                          *)
(*                                                                         *)
(* A Date is its epoch value in milliseconds, counted here from Monday     *)
(* 2024-01-01T00:00:00Z so that the values stay small.  A zone is its UTC  *)
(* offset before and after one DST transition (transition = NoDate: a      *)
(* fixed offset).                                                          *)

MsPerDay  == 24 * 60 * 60 * 1000
MsPerWeek == 7 * 24 * 60 * 60 * 1000

offsetAt(zone, t) ==
    IF zone.transition # NoDate /\ t >= zone.transition
       THEN zone.after ELSE zone.before

\* wall-clock milliseconds of instant t in the zone
toLocal(zone, t) == t + offsetAt(zone, t)

\* the instant at which the zone's wall clock shows `wall`
fromLocal(zone, wall) ==
    IF zone.transition = NoDate \/ wall - zone.before < zone.transition
       THEN wall - zone.before ELSE wall - zone.after

\* Luxon DateTime.startOf('day')
startOfDay(zone, t) ==
    fromLocal(zone, (toLocal(zone, t) \div MsPerDay) * MsPerDay)

\* Luxon DateTime.plus({days: n}): calendar days, the wall-clock time is kept
plusDays(zone, t, n) == fromLocal(zone, toLocal(zone, t) + n * MsPerDay)

\* Luxon DateTime.set({hour: 23, minute: 59, second: 59, millisecond: 999})
setEndOfDay(zone, t) ==
    fromLocal(zone, (toLocal(zone, t) \div MsPerDay) * MsPerDay
                    + 23 * 60 * 60 * 1000 + 59 * 60 * 1000 + 59 * 1000 + 999)

\* Luxon DateTime.weekday (1 = Monday ... 7 = Sunday); local day 0 is a Monday
weekdayOf(zone, t) == ((toLocal(zone, t) \div MsPerDay) % 7) + 1

----------------------------------------------------------------------------
(* Week windows *)

MaxWeekIndex == 1
WeekIndices  == 0..MaxWeekIndex

\* a plausible slip: the inclusive end is not pulled back by one millisecond
computeWeekWindowOpenEnd(start, weekIndex) ==
    [weekStart |-> start + weekIndex * MsPerWeek,
     weekEnd   |-> start + weekIndex * MsPerWeek + MsPerWeek]

\* computeWeekWindow of the controller: fixed millisecond arithmetic
computeWeekWindow(start, weekIndex) ==
    [weekStart |-> start + weekIndex * 7 * 24 * 60 * 60 * 1000,
     weekEnd   |-> (start + weekIndex * 7 * 24 * 60 * 60 * 1000)
                   + 7 * 24 * 60 * 60 * 1000 - 1]

\* the service's window: the season's local start day, moved on by whole
\* weeks and snapped forward to Tuesday, through the seventh day's last ms
serviceWeekStart(zone, startDate, weekIndex) ==
    LET seasonStart == startOfDay(zone, startDate)
    IN  startOfDay(zone,
           plusDays(zone, plusDays(zone, seasonStart, 7 * weekIndex),
                    (2 - weekdayOf(zone, seasonStart) + 7) % 7))

serviceWeekEnd(zone, startDate, weekIndex) ==
    setEndOfDay(zone, plusDays(zone, serviceWeekStart(zone, startDate, weekIndex), 6))

----------------------------------------------------------------------------
(* Snapshot store: upserts keyed by the natural keys *)

swrKeyMatches(r, seasonId, weekIndex, studioId) ==
    r.seasonId = seasonId /\ r.weekIndex = weekIndex /\ r.studioId = studioId

\* a plausible slip: the totals are added to the stored row ($inc for $set)
upsertStudioTotalsAdding(rows, seasonId, weekIndex, studioId, window, totals) ==
    LET hit == {r \in rows : swrKeyMatches(r, seasonId, weekIndex, studioId)}
    IN  IF hit = {}
           THEN rows \cup {[seasonId |-> seasonId, weekIndex |-> weekIndex,
                            studioId |-> studioId,
                            weekStart |-> window.weekStart,
                            weekEnd |-> window.weekEnd,
                            totalDomesticGross |-> totals.totalDomestic,
                            totalWorldwideGross |-> totals.totalWorldwide]}
           ELSE LET old == CHOOSE r \in hit : TRUE
                IN  (rows \ {old}) \cup
                    {[old EXCEPT !.weekStart = window.weekStart,
                                 !.weekEnd = window.weekEnd,
                                 !.totalDomesticGross = @ + totals.totalDomestic,
                                 !.totalWorldwideGross = @ + totals.totalWorldwide]}

\* StudioWeeklyRevenueModel.findOneAndUpdate({seasonId, weekIndex, studioId},
\*   {$set: {leagueId, weekStart, weekEnd, totalDomesticGross,
\*   totalWorldwideGross}}, {upsert: true}) of the controller
upsertStudioTotals(rows, seasonId, weekIndex, studioId, window, totals) ==
    LET hit == {r \in rows : swrKeyMatches(r, seasonId, weekIndex, studioId)}
    IN  IF hit = {}
           THEN rows \cup {[seasonId |-> seasonId, weekIndex |-> weekIndex,
                            studioId |-> studioId,
                            weekStart |-> window.weekStart,
                            weekEnd |-> window.weekEnd,
                            totalDomesticGross |-> totals.totalDomestic,
                            totalWorldwideGross |-> totals.totalWorldwide]}
           ELSE LET old == CHOOSE r \in hit : TRUE
                IN  (rows \ {old}) \cup
                    {[old EXCEPT !.weekStart = window.weekStart,
                                 !.weekEnd = window.weekEnd,
                                 !.totalDomesticGross = totals.totalDomestic,
                                 !.totalWorldwideGross = totals.totalWorldwide]}

\* StudioWeeklyRevenue.updateOne(..., {$set: {leagueId, weekStart, weekEnd,
\*   totalDomesticGross}}, {upsert: true}) of the service: totalWorldwideGross
\* is left as stored, or takes the schema default 0 on insert
upsertStudioDomestic(rows, seasonId, weekIndex, studioId, window, revenue) ==
    LET hit == {r \in rows : swrKeyMatches(r, seasonId, weekIndex, studioId)}
    IN  IF hit = {}
           THEN rows \cup {[seasonId |-> seasonId, weekIndex |-> weekIndex,
                            studioId |-> studioId,
                            weekStart |-> window.weekStart,
                            weekEnd |-> window.weekEnd,
                            totalDomesticGross |-> revenue,
                            totalWorldwideGross |-> 0]}
           ELSE LET old == CHOOSE r \in hit : TRUE
                IN  (rows \ {old}) \cup
                    {[old EXCEPT !.weekStart = window.weekStart,
                                 !.weekEnd = window.weekEnd,
                                 !.totalDomesticGross = revenue]}

\* a plausible slip: nothing is stored when there is nothing to rank
upsertRankingUnlessEmpty(docs, seasonId, weekIndex, rows) ==
    IF rows = <<>> THEN docs
    ELSE (docs \ {d \in docs : d.seasonId = seasonId /\ d.weekIndex = weekIndex})
         \cup {[seasonId |-> seasonId, weekIndex |-> weekIndex, rows |-> rows]}

\* WeeklyRankingModel.findOneAndUpdate({seasonId, weekIndex},
\*   {$set: {leagueId, rows}}, {upsert: true})
upsertRanking(docs, seasonId, weekIndex, rows) ==
    LET hit == {d \in docs : d.seasonId = seasonId /\ d.weekIndex = weekIndex}
    IN  IF hit = {}
           THEN docs \cup {[seasonId |-> seasonId, weekIndex |-> weekIndex,
                            rows |-> rows]}
           ELSE LET old == CHOOSE d \in hit : TRUE
                IN  (docs \ {old}) \cup {[old EXCEPT !.rows = rows]}

----------------------------------------------------------------------------
(* Revenue aggregation and ranking *)

\* Array.prototype.sort((a, b) => b.revenue - a.revenue): stable, descending
RECURSIVE sortByRevenueDesc(_)
sortByRevenueDesc(rows) ==
    IF rows = <<>> THEN <<>>
    ELSE LET top == CHOOSE i \in 1..Len(rows) :
                       /\ \A k \in 1..Len(rows) : rows[k].revenue <= rows[i].revenue
                       /\ \A k \in 1..(i - 1) : rows[k].revenue < rows[i].revenue
             rest == [k \in 1..(Len(rows) - 1) |->
                        IF k < top THEN rows[k] ELSE rows[k + 1]]
         IN  <<rows[top]>> \o sortByRevenueDesc(rest)

\* the last ownership row of each movie, as Map.set leaves it
lastOwnerByMovie(owns) ==
    [m \in {owns[i].movieId : i \in 1..Len(owns)} |->
        owns[CHOOSE i \in 1..Len(owns) :
                /\ owns[i].movieId = m
                /\ \A k \in 1..Len(owns) : owns[k].movieId = m => k <= i
            ].studioId]

\* controller: every ownership row of the season maps its movie to its studio
movieToStudio(owns, seasonId) ==
    lastOwnerByMovie(SelectSeq(owns, LAMBDA o : o.seasonId = seasonId))

\* controller: `perStudio`, a Map in insertion order, one entry per studio
RECURSIVE perStudioTotals(_, _, _)
perStudioTotals(revs, owner, acc) ==
    IF revs = <<>> THEN acc
    ELSE LET r == Head(revs)
         IN  IF r.movieId \notin DOMAIN owner
                THEN perStudioTotals(Tail(revs), owner, acc)
                ELSE LET sid == owner[r.movieId]
                         at  == {i \in 1..Len(acc) : acc[i].studioId = sid}
                     IN  IF at = {}
                            THEN perStudioTotals(Tail(revs), owner,
                                    Append(acc, [studioId |-> sid,
                                                 totalDomestic |-> r.domesticGross,
                                                 totalWorldwide |-> r.worldwideGross]))
                            ELSE LET i == CHOOSE i \in at : TRUE
                                 IN  perStudioTotals(Tail(revs), owner,
                                        [acc EXCEPT
                                           ![i].totalDomestic = @ + r.domesticGross,
                                           ![i].totalWorldwide = @ + r.worldwideGross])

POINTS_TABLE_OPTION_B == <<10, 8, 6, 5, 4, 3, 2, 1>>

\* league.customPointTable.values() on a league read with .lean(): the league
\* is not hydrated, so whether the field is a Map (values() lists the values
\* in insertion order) or the stored plain object (values is not a function,
\* the call throws) is decided by the Mongoose build, not by this code
valuesMayThrow(lg) ==
    lg.pointsScheme = "custom" /\ "customPointTable" \in DOMAIN lg

\* controller: custom table values in insertion order, or the default table
pointsTableOf(lg) ==
    IF lg.pointsScheme = "custom" /\ "customPointTable" \in DOMAIN lg
       THEN [i \in 1..Len(lg.customPointTable) |-> lg.customPointTable[i].points]
       ELSE POINTS_TABLE_OPTION_B

\* mutant of rankByPosition: positions beyond the table keep its last entry
rankByPositionClamped(totals, table) ==
    LET ranked == sortByRevenueDesc(
                     [i \in 1..Len(totals) |->
                        [studioId |-> totals[i].studioId,
                         revenue |-> totals[i].totalWorldwide]])
    IN  [i \in 1..Len(ranked) |->
            [studioId |-> ranked[i].studioId, rank |-> i,
             points |-> IF i <= Len(table) THEN table[i]
                        ELSE IF table = <<>> THEN 0 ELSE table[Len(table)],
             revenue |-> ranked[i].revenue]]

\* controller: sequential ranks, points by position
rankByPosition(totals, table) ==
    LET ranked == sortByRevenueDesc(
                     [i \in 1..Len(totals) |->
                        [studioId |-> totals[i].studioId,
                         revenue |-> totals[i].totalWorldwide]])
    IN  [i \in 1..Len(ranked) |->
            [studioId |-> ranked[i].studioId, rank |-> i,
             points |-> IF i <= Len(table) THEN table[i] ELSE 0,
             revenue |-> ranked[i].revenue]]

RECURSIVE upsertAllTotals(_, _, _, _, _)
upsertAllTotals(rows, seasonId, weekIndex, window, totals) ==
    IF totals = <<>> THEN rows
    ELSE upsertAllTotals(
            upsertStudioTotals(rows, seasonId, weekIndex, Head(totals).studioId,
                               window, Head(totals)),
            seasonId, weekIndex, window, Tail(totals))

\* service: ownerships overlapping the week map their movie to their studio
ownerByMovie(owns, seasonId, weekStart, weekEnd) ==
    lastOwnerByMovie(
        SelectSeq(owns,
           LAMBDA o : /\ o.seasonId = seasonId
                      /\ (o.retiredAt = NoDate \/ o.retiredAt >= weekStart)
                      /\ o.acquiredAt <= weekEnd))

\* service: `studioTotals`, domestic gross summed per studio
RECURSIVE studioTotalsOf(_, _, _)
studioTotalsOf(revs, owner, acc) ==
    IF revs = <<>> THEN acc
    ELSE LET r == Head(revs)
         IN  IF r.movieId \notin DOMAIN owner
                THEN studioTotalsOf(Tail(revs), owner, acc)
                ELSE LET sid == owner[r.movieId]
                         at  == {i \in 1..Len(acc) : acc[i].studioId = sid}
                     IN  IF at = {}
                            THEN studioTotalsOf(Tail(revs), owner,
                                    Append(acc, [studioId |-> sid,
                                                 revenue |-> r.domesticGross]))
                            ELSE LET i == CHOOSE i \in at : TRUE
                                 IN  studioTotalsOf(Tail(revs), owner,
                                        [acc EXCEPT ![i].revenue = @ + r.domesticGross])

\* a plausible slip: the curve starts one step too low
pointForShifted(N, pos) == 2 * N - 2 * pos

\* service: const pointFor = (pos) => 2 * N - 2 * (pos - 1)
pointFor(N, pos) == 2 * N - 2 * (pos - 1)

RECURSIVE sumPointFor(_, _, _)
sumPointFor(N, rank, span) ==
    IF span = 0 THEN 0
    ELSE pointFor(N, rank + span - 1) + sumPointFor(N, rank, span - 1)

\* mutant of rankTieAware: a block of equal revenue gets the points of its
\* first position, not the mean
RECURSIVE rankTieFirstPoints(_, _)
rankTieFirstPoints(rows, i) ==
    IF i > Len(rows) THEN <<>>
    ELSE LET N == Len(rows)
             j == CHOOSE j \in (i + 1)..(N + 1) :
                     /\ \A k \in i..(j - 1) : rows[k].revenue = rows[i].revenue
                     /\ (j <= N => rows[j].revenue # rows[i].revenue)
             span == j - i
         IN  [k \in 1..span |->
                [studioId |-> rows[i + k - 1].studioId,
                 revenue |-> rows[i + k - 1].revenue,
                 rank |-> i, points |-> pointFor(N, i)]]
             \o rankTieFirstPoints(rows, j)

\* service: the tie-aware loop from position i on; a block of equal revenue
\* shares the rank of its first position and the mean of its positions' points
\* (sumPts / span is a whole number: the points of a block are an arithmetic
\* progression of even numbers)
RECURSIVE rankTieAware(_, _)
rankTieAware(rows, i) ==
    IF i > Len(rows) THEN <<>>
    ELSE LET N == Len(rows)
             j == CHOOSE j \in (i + 1)..(N + 1) :
                     /\ \A k \in i..(j - 1) : rows[k].revenue = rows[i].revenue
                     /\ (j <= N => rows[j].revenue # rows[i].revenue)
             span == j - i
             avgPts == sumPointFor(N, i, span) \div span
         IN  [k \in 1..span |->
                [studioId |-> rows[i + k - 1].studioId,
                 revenue |-> rows[i + k - 1].revenue,
                 rank |-> i, points |-> avgPts]]
             \o rankTieAware(rows, j)

RECURSIVE upsertAllDomestic(_, _, _, _, _)
upsertAllDomestic(rows, seasonId, weekIndex, window, totals) ==
    IF totals = <<>> THEN rows
    ELSE upsertAllDomestic(
            upsertStudioDomestic(rows, seasonId, weekIndex, Head(totals).studioId,
                                 window, Head(totals).revenue),
            seasonId, weekIndex, window, Tail(totals))

----------------------------------------------------------------------------
(* The :weekIndex route parameter: a string, here a sequence of characters *)

DigitChars == <<"0", "1", "2">>
ParamChars == {"-", "+", ".", "a"} \cup {DigitChars[i] : i \in 1..Len(DigitChars)}

isDigit(c) == \E i \in 1..Len(DigitChars) : DigitChars[i] = c
digitValue(c) == (CHOOSE i \in 1..Len(DigitChars) : DigitChars[i] = c) - 1

RECURSIVE decimalValue(_)
decimalValue(digits) ==
    IF digits = <<>> THEN 0
    ELSE 10 * decimalValue(SubSeq(digits, 1, Len(digits) - 1))
         + digitValue(digits[Len(digits)])

unsigned(str) == IF str # <<>> /\ Head(str) \in {"-", "+"} THEN Tail(str) ELSE str
signOf(str) == IF str # <<>> /\ Head(str) = "-" THEN -1 ELSE 1

\* JavaScript Number(str) on these characters: an optional sign, then digits
\* with at most one point and at least one digit; anything else is NaN
Number(str) ==
    LET body   == unsigned(str)
        points == {i \in 1..Len(body) : body[i] = "."}
        cut    == IF points = {} THEN Len(body) + 1 ELSE CHOOSE i \in points : TRUE
        whole  == SubSeq(body, 1, cut - 1)
        frac   == SubSeq(body, cut + 1, Len(body))
        digits == whole \o frac
    IN  IF \/ Cardinality(points) > 1
           \/ digits = <<>>
           \/ \E i \in 1..Len(digits) : ~isDigit(digits[i])
           THEN [nan |-> TRUE, integer |-> FALSE, value |-> 0]
           ELSE [nan |-> FALSE,
                 integer |-> \A i \in 1..Len(frac) : frac[i] = "0",
                 value |-> signOf(str) * decimalValue(whole)]

\* a plausible slip: the lower bound is not passed to the validator
isIntAnySign(str, min) ==
    /\ unsigned(str) # <<>>
    /\ \A i \in 1..Len(unsigned(str)) : isDigit(unsigned(str)[i])

\* param('weekIndex').isInt({min: 0}): validator.js matches /^[-+]?[0-9]+$/
\* and then compares the number with min
isInt(str, min) ==
    /\ unsigned(str) # <<>>
    /\ \A i \in 1..Len(unsigned(str)) : isDigit(unsigned(str)[i])
    /\ Number(str).value >= min

\* the legacy route: Number.isInteger(weekIndex) && weekIndex >= 0
legacyWeekIndexValid(str) ==
    /\ ~Number(str).nan
    /\ Number(str).integer
    /\ Number(str).value >= 0

\* the parameter a client sends for week w
weekIndexParam(w) == <<DigitChars[w + 1]>>

----------------------------------------------------------------------------
(* POST /api/seasons/:id/compute/week/:weekIndex: isAuth, validation,      *)
(* computeWeek (controller), run from request to response                  *)

\* steps 1 to 6 of the controller and of the legacy route: totals per studio,
\* their upserts, the ranking and its upsert
computeWeekWrite(seasonId, weekIndex, table) ==
    LET window == computeWeekWindow(season.startDate, weekIndex)
        owner  == movieToStudio(ownerships, seasonId)
        revs   == SelectSeq(revenues,
                     LAMBDA r : /\ r.weekStart >= window.weekStart
                                /\ r.weekStart <= window.weekEnd)
        totals == perStudioTotals(revs, owner, <<>>)
    IN  /\ studioWeeklyRevenue' =
              upsertAllTotals(studioWeeklyRevenue, seasonId, weekIndex,
                              window, totals)
        /\ weeklyRanking' =
              upsertRanking(weeklyRanking, seasonId, weekIndex,
                            rankByPosition(totals, table))

\* steps 1 to 4 alone: the call broke off after the StudioWeeklyRevenue upserts
computeWeekTotalsOnly(seasonId, weekIndex) ==
    LET window == computeWeekWindow(season.startDate, weekIndex)
        owner  == movieToStudio(ownerships, seasonId)
        revs   == SelectSeq(revenues,
                     LAMBDA r : /\ r.weekStart >= window.weekStart
                                /\ r.weekStart <= window.weekEnd)
        totals == perStudioTotals(revs, owner, <<>>)
    IN  /\ studioWeeklyRevenue' =
              upsertAllTotals(studioWeeklyRevenue, seasonId, weekIndex,
                              window, totals)
        /\ weeklyRanking' = weeklyRanking

computeWeek(p, userId, seasonId, param) ==
    /\ Free(p)
    /\ IF ~isInt(param, 0)
          THEN /\ req' = [req EXCEPT ![p] =
                            [op |-> "computeWeek", userId |-> userId,
                             seasonId |-> seasonId, param |-> param]]
               /\ Finish(p, "ValidationFailed")
               /\ UNCHANGED <<studioWeeklyRevenue, weeklyRanking>>
          ELSE /\ Number(param).value <= MaxWeekIndex
               /\ req' = [req EXCEPT ![p] =
                            [op |-> "computeWeek", userId |-> userId,
                             seasonId |-> seasonId, param |-> param,
                             weekIndex |-> Number(param).value]]
               /\ IF seasonId # season.seasonId
                     THEN /\ Finish(p, "NotFound")
                          /\ UNCHANGED <<studioWeeklyRevenue, weeklyRanking>>
                  ELSE IF ~isLeagueManager(league, userId)
                     THEN /\ Finish(p, "Forbidden")
                          /\ UNCHANGED <<studioWeeklyRevenue, weeklyRanking>>
                  ELSE \/ /\ computeWeekWrite(seasonId, Number(param).value,
                                              pointsTableOf(league))
                          /\ Finish(p, "Created")
                       \/ /\ valuesMayThrow(league)
                          /\ computeWeekTotalsOnly(seasonId, Number(param).value)
                          /\ Finish(p, "InternalError")
    /\ UNCHANGED <<ownerships, bonuses, clock, configVars, revenues>>

(* the legacy route of routes/studios.ts: isAuth and an inline handler with *)
(* its own weekIndex test, no manager check and the default table           *)

computeWeekLegacy(p, userId, seasonId, param) ==
    /\ Free(p)
    /\ IF ~legacyWeekIndexValid(param)
          THEN /\ req' = [req EXCEPT ![p] =
                            [op |-> "computeWeekLegacy", userId |-> userId,
                             seasonId |-> seasonId,
                             param |-> param]]
               /\ Finish(p, "BadRequest")
               /\ UNCHANGED <<studioWeeklyRevenue, weeklyRanking>>
          ELSE /\ Number(param).value <= MaxWeekIndex
               /\ req' = [req EXCEPT ![p] =
                            [op |-> "computeWeekLegacy", userId |-> userId,
                             seasonId |-> seasonId,
                             param |-> param,
                             weekIndex |-> Number(param).value]]
               /\ IF seasonId # season.seasonId
                     THEN /\ Finish(p, "NotFound")
                          /\ UNCHANGED <<studioWeeklyRevenue, weeklyRanking>>
                     ELSE /\ computeWeekWrite(seasonId, Number(param).value,
                                              POINTS_TABLE_OPTION_B)
                          /\ Finish(p, "Created")
    /\ UNCHANGED <<ownerships, bonuses, clock, configVars, revenues>>

(* The controller's computeWeek await by await, for calls that interleave   *)
(* or break off: the lookups and checks, MovieOwnershipModel.find,          *)
(* MovieWeeklyRevenueModel.find, one findOneAndUpdate per studio, and the   *)
(* WeeklyRanking findOneAndUpdate                                           *)

NoOwner == [m \in {} |-> "none"]

computeWeekBegin(p, userId, seasonId, param) ==
    /\ Free(p)
    /\ IF ~isInt(param, 0)
          THEN /\ req' = [req EXCEPT ![p] =
                            [op |-> "computeWeek", userId |-> userId,
                             seasonId |-> seasonId, param |-> param]]
               /\ Finish(p, "ValidationFailed")
          ELSE /\ Number(param).value <= MaxWeekIndex
               /\ req' = [req EXCEPT ![p] =
                            [op |-> "computeWeek", userId |-> userId,
                             seasonId |-> seasonId, param |-> param,
                             weekIndex |-> Number(param).value,
                             window |-> computeWeekWindow(season.startDate,
                                                          Number(param).value),
                             owner |-> NoOwner, totals |-> <<>>, upserts |-> 0]]
               /\ IF seasonId # season.seasonId THEN Finish(p, "NotFound")
                  ELSE IF ~isLeagueManager(league, userId)
                     THEN Finish(p, "Forbidden")
                  ELSE /\ pc' = [pc EXCEPT ![p] = "cmpOwnerships"]
                       /\ result' = [result EXCEPT ![p] = "pending"]
    /\ UNCHANGED <<ownerships, bonuses, clock, configVars, computeVars>>

computeWeekFindOwnerships(p) ==
    /\ pc[p] = "cmpOwnerships"
    /\ req' = [req EXCEPT ![p].owner = movieToStudio(ownerships, req[p].seasonId)]
    /\ Goto(p, "cmpRevenues")
    /\ UNCHANGED <<ownerships, bonuses, clock, configVars, computeVars>>

computeWeekFindRevenues(p) ==
    /\ pc[p] = "cmpRevenues"
    /\ LET revs   == SelectSeq(revenues,
                        LAMBDA r : /\ r.weekStart >= req[p].window.weekStart
                                   /\ r.weekStart <= req[p].window.weekEnd)
           totals == perStudioTotals(revs, req[p].owner, <<>>)
       IN  /\ req' = [req EXCEPT ![p].totals = totals]
           /\ Goto(p, IF totals = <<>> THEN "cmpRanking" ELSE "cmpUpsert")
    /\ UNCHANGED <<ownerships, bonuses, clock, configVars, computeVars>>

computeWeekUpsertTotals(p) ==
    /\ pc[p] = "cmpUpsert"
    /\ LET t == req[p].totals[req[p].upserts + 1]
       IN  studioWeeklyRevenue' =
              upsertStudioTotals(studioWeeklyRevenue, req[p].seasonId,
                                 req[p].weekIndex, t.studioId, req[p].window, t)
    /\ req' = [req EXCEPT ![p].upserts = @ + 1]
    /\ Goto(p, IF req[p].upserts + 1 = Len(req[p].totals)
                  THEN "cmpRanking" ELSE "cmpUpsert")
    /\ UNCHANGED <<ownerships, bonuses, clock, configVars, revenues, weeklyRanking>>

computeWeekUpsertRanking(p) ==
    /\ pc[p] = "cmpRanking"
    /\ weeklyRanking' =
          upsertRanking(weeklyRanking, req[p].seasonId, req[p].weekIndex,
                        rankByPosition(req[p].totals, pointsTableOf(league)))
    /\ Finish(p, "Created")
    /\ UNCHANGED <<ownerships, bonuses, clock, req, configVars, revenues,
                   studioWeeklyRevenue>>

\* a plausible slip: the handler undoes its upserts before it answers
computeWeekCatchRollingBack(p) ==
    /\ pc[p] \in {"cmpOwnerships", "cmpRevenues", "cmpUpsert", "cmpRanking"}
    /\ studioWeeklyRevenue' =
          {r \in studioWeeklyRevenue :
              ~\E k \in 1..req[p].upserts :
                  swrKeyMatches(r, req[p].seasonId, req[p].weekIndex,
                                req[p].totals[k].studioId)}
    /\ Finish(p, "InternalError")
    /\ UNCHANGED <<ownerships, bonuses, clock, req, configVars, revenues,
                   weeklyRanking>>

\* the awaited store call rejects: `catch` logs and answers 500
computeWeekCatch(p) ==
    /\ pc[p] \in {"cmpOwnerships", "cmpRevenues", "cmpUpsert", "cmpRanking"}
    /\ Finish(p, "InternalError")
    /\ UNCHANGED <<ownerships, bonuses, clock, req, configVars, computeVars>>

(* MovieWeeklyRevenueModel.find carries no sort: the rows come back in the *)
(* store's natural order, which the store may change at any time           *)

Orderings(n) ==
    {f \in [1..n -> 1..n] : \A i, k \in 1..n : f[i] = f[k] => i = k}

naturalOrderChanges(f) ==
    /\ f \in Orderings(Len(revenues))
    /\ revenues' = [i \in 1..Len(revenues) |-> revenues[f[i]]]
    /\ UNCHANGED <<ownerships, bonuses, clock, requestVars, configVars,
                   studioWeeklyRevenue, weeklyRanking>>

(* POST /api/dev/revenue/upsert: devRevenueUpsertValidation, upsertRevenue, *)
(* the one writer of MovieWeeklyRevenue                                     *)

\* findOneAndUpdate({movieId, weekStart}, {$set: {weekEnd, domesticGross,
\* worldwideGross}}, {upsert: true}); a new row goes to the end
upsertMovieRevenue(rows, movieId, weekStart, domesticGross, worldwideGross) ==
    LET hit == {i \in 1..Len(rows) : /\ rows[i].movieId = movieId
                                     /\ rows[i].weekStart = weekStart}
    IN  IF hit = {}
           THEN Append(rows, [movieId |-> movieId, weekStart |-> weekStart,
                              domesticGross |-> domesticGross,
                              worldwideGross |-> worldwideGross])
           ELSE [rows EXCEPT ![CHOOSE i \in hit : TRUE] =
                    [@ EXCEPT !.domesticGross = domesticGross,
                              !.worldwideGross = worldwideGross]]

upsertRevenue(p, isDevelopment, movieId, weekStart, domesticGross, worldwideGross) ==
    /\ Free(p)
    /\ req' = [req EXCEPT ![p] = [op |-> "upsertRevenue", movieId |-> movieId,
                                  weekStart |-> weekStart,
                                  domesticGross |-> domesticGross,
                                  worldwideGross |-> worldwideGross]]
    /\ IF ~isDevelopment
          THEN /\ Finish(p, "NotFound")
               /\ UNCHANGED revenues
          ELSE /\ revenues' = upsertMovieRevenue(revenues, movieId, weekStart,
                                                 domesticGross, worldwideGross)
               /\ Finish(p, "Created")
    /\ UNCHANGED <<ownerships, bonuses, clock, configVars,
                   studioWeeklyRevenue, weeklyRanking>>

(* computeWeek(seasonId, weekIndex) of the service, run from call to return *)

computeWeekService(p, seasonId, weekIndex) ==
    /\ Free(p)
    /\ req' = [req EXCEPT ![p] = [op |-> "computeWeekService",
                                  seasonId |-> seasonId, weekIndex |-> weekIndex]]
    /\ IF seasonId # season.seasonId
          THEN /\ Finish(p, "NotFound")
               /\ UNCHANGED <<studioWeeklyRevenue, weeklyRanking>>
       ELSE LET tz     == league.timezone
                window == [weekStart |-> serviceWeekStart(tz, season.startDate, weekIndex),
                           weekEnd   |-> serviceWeekEnd(tz, season.startDate, weekIndex)]
                owner  == ownerByMovie(ownerships, seasonId,
                                       window.weekStart, window.weekEnd)
                revs   == SelectSeq(revenues,
                             LAMBDA r : r.weekStart = window.weekStart)
                totals == studioTotalsOf(revs, owner, <<>>)
            IN  /\ studioWeeklyRevenue' =
                      upsertAllDomestic(studioWeeklyRevenue, seasonId, weekIndex,
                                        window, totals)
                /\ weeklyRanking' =
                      upsertRanking(weeklyRanking, seasonId, weekIndex,
                                    rankTieAware(sortByRevenueDesc(totals), 1))
                /\ Finish(p, "Returned")
    /\ UNCHANGED <<ownerships, bonuses, clock, configVars, revenues>>

----------------------------------------------------------------------------
(* PATCH /api/seasons/:id: isAuth, updateSeason; of the body's fields only  *)
(* startDate is modelled, NoDate standing for a body without it             *)

updateSeason(p, userId, id, startDate) ==
    /\ Free(p)
    /\ req' = [req EXCEPT ![p] = [op |-> "updateSeason", userId |-> userId,
                                  seasonId |-> id, startDate |-> startDate]]
    /\ IF id # season.seasonId
          THEN /\ Finish(p, "NotFound")
               /\ UNCHANGED season
       ELSE IF ~isLeagueManager(league, userId)
          THEN /\ Finish(p, "Forbidden")
               /\ UNCHANGED season
       ELSE /\ season' = IF startDate # NoDate
                            THEN [season EXCEPT !.startDate = startDate]
                            ELSE season
            /\ Finish(p, "Updated")
    /\ UNCHANGED <<ownerships, bonuses, clock, league, computeVars>>

----------------------------------------------------------------------------
(* Specifications *)

DefaultLeague ==
    [ownerId |-> "owner", commissionerIds |-> {},
     timezone |-> [transition |-> NoDate, before |-> 0, after |-> 0],
     pointsScheme |-> "optionB",
     awardCategories |->
        <<[key |-> "bestPicture", enabled |-> TRUE,
           nominationPoints |-> 1, winPoints |-> 2],
          [key |-> "bestSound", enabled |-> FALSE,
           nominationPoints |-> 1, winPoints |-> 2]>>]

DefaultSeason == [seasonId |-> "S1", startDate |-> 24 * 60 * 60 * 1000]

Idle ==
    /\ pc = [p \in Procs |-> "idle"]
    /\ req = [p \in Procs |-> NoReq]
    /\ result = [p \in Procs |-> "none"]

NoSnapshots ==
    /\ studioWeeklyRevenue = {}
    /\ weeklyRanking = {}

\* the ownership ledger under concurrent acquire and retire requests
Init ==
    /\ ownerships = <<>>
    /\ bonuses = <<>>
    /\ clock = 0
    /\ Idle
    /\ league = DefaultLeague
    /\ season = DefaultSeason
    /\ revenues = <<>>
    /\ NoSnapshots

\* league-local request times tried by the ledger: the guard's two verdicts
SampleTimes == {[weekday |-> 3, hour |-> 10], [weekday |-> 6, hour |-> 10]}

Acquire(procs, users, studios, times) ==
    \/ \E p \in procs, u \in users, s \in Seasons, st \in studios,
          m \in LedgerMovies, at \in AcquiredAts, now \in times :
          enforceAcquisitionWindow(p, u, s, st, m, at, now)
    \/ \E p \in procs : createOwnershipMembership(p)
    \/ \E p \in procs : createOwnershipFindExisting(p)
    \/ \E p \in procs : createOwnershipCreate(p)

Retire(procs, users, times) ==
    \/ \E p \in procs, u \in users, id \in 1..Cardinality(LedgerMovies),
          now \in times :
          retireOwnershipLoad(p, u, id, now)
    \/ \E p \in procs : retireOwnershipMembership(p)
    \/ \E p \in procs, t \in Times : retireOwnershipSave(p, t)

\* the ledger's retire requests all arrive on Wednesday 10:00
RetireTimes == {[weekday |-> 3, hour |-> 10]}

Next ==
    \/ Acquire(Procs, LedgerUsers, LedgerStudios, SampleTimes)
    \/ Retire(Procs, LedgerUsers, RetireTimes)

Spec == Init /\ [][Next]_vars

\* one request at a time, at every league-local weekday and hour
NextGuard ==
    \/ Acquire({"p1"}, {"ua"}, {"A"}, LocalTimes)
    \/ Retire({"p1"}, {"ua"}, SampleTimes)

SpecGuard == Init /\ [][NextGuard]_vars

\* concurrent award requests over a ledger that acquire and retire left
row(m, st, ret) ==
    [seasonId |-> "S1", studioId |-> st, movieId |-> m,
     acquiredAt |-> 0, retiredAt |-> ret, refundApplied |-> FALSE]

AwardLedgers ==
    {<<>>, <<row("M1", "A", NoDate)>>, <<row("M1", "B", 0)>>,
     <<row("M2", "B", NoDate), row("M1", "A", NoDate)>>}

AwardUsers == {"owner", "ua"}
CategoryKeys == {"bestPicture", "bestSound", "bestScore"}
Results == {"nom", "win"}

InitAward ==
    /\ ownerships \in AwardLedgers
    /\ bonuses = <<>>
    /\ clock = 0
    /\ Idle
    /\ league = DefaultLeague
    /\ season = DefaultSeason
    /\ revenues = <<>>
    /\ NoSnapshots

NextAward ==
    \/ \E p \in Procs, u \in AwardUsers, s \in Seasons, k \in CategoryKeys,
          m \in LedgerMovies, r \in Results :
          applyAwardBonusResolve(p, u, s, k, m, r)
    \/ \E p \in Procs : applyAwardBonusFindOwnership(p)
    \/ \E p \in Procs : applyAwardBonusFindExisting(p)
    \/ \E p \in Procs : applyAwardBonusCreate(p)

SpecAward == InitAward /\ [][NextAward]_vars

\* week computations, one call at a time, over ledgers and revenue tables
\* that acquire, retire and the revenue ingestion can leave behind
MovieOrder == <<"M1", "M2", "M3">>

OwnershipTimings ==
    {[acquiredAt |-> 0, retiredAt |-> NoDate],
     [acquiredAt |-> 0, retiredAt |-> 12 * 60 * 60 * 1000],
     [acquiredAt |-> 9 * MsPerDay, retiredAt |-> NoDate]}

OwnerChoices ==
    {f \in [Movies -> Studios \cup {"none"}] :
        /\ f["M1"] \in {"A", "B", "none"}
        /\ f["M2"] \in {"A", "B"}
        /\ f["M3"] \in {"C", "none"}}

\* the ledger holding the chosen rows in movie order; `timing` is M1's row's
ledgerOf(f, timing) ==
    LET all == [i \in 1..Len(MovieOrder) |->
                  [seasonId |-> "S1", studioId |-> f[MovieOrder[i]],
                   movieId |-> MovieOrder[i],
                   acquiredAt |-> IF i = 1 THEN timing.acquiredAt ELSE 0,
                   retiredAt |-> IF i = 1 THEN timing.retiredAt ELSE NoDate,
                   refundApplied |-> FALSE]]
    IN  SelectSeq(all, LAMBDA o : o.studioId # "none")

DefaultTiming == [acquiredAt |-> 0, retiredAt |-> NoDate]

\* M1's row takes every timing under studio A, the plain one under studio B;
\* the empty ledger is the season before any acquisition
ComputeLedgers ==
    {ledgerOf(x[1], x[2]) :
        x \in {y \in OwnerChoices \X OwnershipTimings :
                  y[1]["M1"] = "A" \/ y[2] = DefaultTiming}}
    \cup {<<>>}

Grosses ==
    {[domesticGross |-> 100, worldwideGross |-> 100],
     [domesticGross |-> 50, worldwideGross |-> 50],
     [domesticGross |-> 25, worldwideGross |-> 50]}

NoGross == [domesticGross |-> 0, worldwideGross |-> 0]

\* MovieWeeklyRevenue rows of the weeks starting at `starts`, week by week in
\* movie order; a movie without a gross has no row
revenueTable(g, starts) ==
    LET n   == Len(MovieOrder)
        all == [i \in 1..(n * Len(starts)) |->
                  [movieId |-> MovieOrder[((i - 1) % n) + 1],
                   weekStart |-> starts[((i - 1) \div n) + 1],
                   domesticGross |-> g[MovieOrder[((i - 1) % n) + 1]].domesticGross,
                   worldwideGross |-> g[MovieOrder[((i - 1) % n) + 1]].worldwideGross]]
    IN  SelectSeq(all, LAMBDA r : r.domesticGross # 0)

ComputeUsers == {"owner", "ua"}

InitCompute ==
    /\ ownerships \in ComputeLedgers
    /\ bonuses = <<>>
    /\ clock = 0
    /\ Idle
    /\ league = DefaultLeague
    /\ season = DefaultSeason
    /\ \E g \in [Movies -> Grosses \cup {NoGross}] :
          /\ g["M1"] # NoGross
          /\ g["M2"] \in {x \in Grosses : x.domesticGross = x.worldwideGross}
          /\ revenues = revenueTable(g, [k \in 1..(MaxWeekIndex + 1) |->
                                            DefaultSeason.startDate
                                            + (k - 1) * MsPerWeek])
    /\ NoSnapshots

NextCompute ==
    \/ \E u \in ComputeUsers, w \in WeekIndices :
          computeWeek("p1", u, "S1", weekIndexParam(w))
    \/ \E w \in WeekIndices : computeWeekService("p1", "S1", w)

SpecCompute == InitCompute /\ [][NextCompute]_vars

\* week computations over seasons starting on a Monday or a Tuesday in
\* leagues with a fixed offset, a spring-forward and a fall-back transition
Zones ==
    {[transition |-> NoDate, before |-> 0, after |-> 0],
     [transition |-> 10 * MsPerDay + 60 * 60 * 1000,
      before |-> 60 * 60 * 1000, after |-> 2 * 60 * 60 * 1000],
     [transition |-> 3 * MsPerDay + 60 * 60 * 1000,
      before |-> 2 * 60 * 60 * 1000, after |-> 60 * 60 * 1000]}

StartDates ==
    {6 * 60 * 60 * 1000, MsPerDay, MsPerDay + 15 * 60 * 60 * 1000}

\* the distinct week starts either engine looks revenue up by, ascending
RECURSIVE ascending(_)
ascending(S) ==
    IF S = {} THEN <<>>
    ELSE LET lo == CHOOSE x \in S : \A y \in S : x <= y
         IN  <<lo>> \o ascending(S \ {lo})

weekStartsOf(zone, startDate) ==
    ascending({computeWeekWindow(startDate, w).weekStart : w \in WeekIndices}
              \cup {serviceWeekStart(zone, startDate, w) : w \in WeekIndices})

WindowGross ==
    [m \in Movies |-> IF m = "M1" THEN [domesticGross |-> 100, worldwideGross |-> 100]
                      ELSE IF m = "M2" THEN [domesticGross |-> 25, worldwideGross |-> 50]
                      ELSE NoGross]

InitWindow ==
    /\ ownerships = <<row("M1", "A", NoDate), row("M2", "B", NoDate)>>
    /\ bonuses = <<>>
    /\ clock = 0
    /\ Idle
    /\ \E z \in Zones : league = [DefaultLeague EXCEPT !.timezone = z]
    /\ \E d \in StartDates : season = [DefaultSeason EXCEPT !.startDate = d]
    /\ revenues = revenueTable(WindowGross,
                               weekStartsOf(league.timezone, season.startDate))
    /\ NoSnapshots

SpecWindow == InitWindow /\ [][NextCompute]_vars

\* week computations asked for with every short :weekIndex parameter
MaxParamLen == 2
Params == UNION {[1..n -> ParamChars] : n \in 1..MaxParamLen}

InitValidate ==
    /\ ownerships = <<row("M1", "A", NoDate), row("M2", "B", NoDate)>>
    /\ bonuses = <<>>
    /\ clock = 0
    /\ Idle
    /\ league = DefaultLeague
    /\ season = DefaultSeason
    /\ revenues = revenueTable(WindowGross,
                               [k \in 1..(MaxWeekIndex + 1) |->
                                   DefaultSeason.startDate + (k - 1) * MsPerWeek])
    /\ NoSnapshots

NextValidate ==
    \/ \E param \in Params : computeWeek("p1", "owner", "S1", param)
    \/ \E param \in Params : computeWeekLegacy("p1", "owner", "S1", param)

SpecValidate == InitValidate /\ [][NextValidate]_vars

\* week 0 recomputed, one request at a time, while studios retire movies
\* and revenue rows are corrected
InitRecompute ==
    /\ ownerships = <<row("M1", "A", NoDate), row("M2", "B", NoDate)>>
    /\ bonuses = <<>>
    /\ clock = 0
    /\ Idle
    /\ league = DefaultLeague
    /\ season = DefaultSeason
    /\ revenues = revenueTable(WindowGross, <<DefaultSeason.startDate>>)
    /\ NoSnapshots

NextRecompute ==
    \/ Retire({"p1"}, LedgerUsers, RetireTimes)
    \/ computeWeek("p1", "owner", "S1", weekIndexParam(0))
    \/ computeWeekService("p1", "S1", 0)
    \/ \E dev \in BOOLEAN, m \in LedgerMovies, g \in Grosses :
          upsertRevenue("p1", dev, m, DefaultSeason.startDate,
                        g.domesticGross, g.worldwideGross)

SpecRecompute == InitRecompute /\ [][NextRecompute]_vars

\* the controller's calls one at a time, any of them breaking off at any
\* await, over fixed inputs
computeWeekSteps(p) ==
    \/ computeWeekFindOwnerships(p)
    \/ computeWeekFindRevenues(p)
    \/ computeWeekUpsertTotals(p)
    \/ computeWeekUpsertRanking(p)

InitFail ==
    /\ ownerships \in {<<row("M1", "A", NoDate), row("M2", "B", NoDate)>>,
                       <<row("M1", "A", NoDate), row("M2", "B", NoDate),
                         row("M3", "C", NoDate)>>,
                       <<row("M2", "A", NoDate), row("M1", "A", NoDate)>>}
    /\ bonuses = <<>>
    /\ clock = 0
    /\ Idle
    /\ league = DefaultLeague
    /\ season = DefaultSeason
    /\ \E g \in [Movies -> Grosses] :
          /\ g["M2"].domesticGross = g["M2"].worldwideGross
          /\ revenues = revenueTable(g, [k \in 1..(MaxWeekIndex + 1) |->
                                            DefaultSeason.startDate
                                            + (k - 1) * MsPerWeek])
    /\ NoSnapshots

NextFail ==
    \/ \E w \in WeekIndices : computeWeekBegin("p1", "owner", "S1", weekIndexParam(w))
    \/ computeWeekSteps("p1")
    \/ computeWeekCatch("p1")

SpecFail == InitFail /\ [][NextFail]_vars

\* two clients that correct week-0 revenue and have week 0 computed, their
\* requests interleaving await by await
RaceGrosses ==
    {[domesticGross |-> 100, worldwideGross |-> 100],
     [domesticGross |-> 50, worldwideGross |-> 50]}

NextRace ==
    \/ \E p \in Procs : computeWeekBegin(p, "owner", "S1", weekIndexParam(0))
    \/ \E p \in Procs : computeWeekSteps(p)
    \/ \E p \in Procs, g \in RaceGrosses :
          upsertRevenue(p, TRUE, "M2", DefaultSeason.startDate,
                        g.domesticGross, g.worldwideGross)

SpecRace == InitRecompute /\ [][NextRace]_vars

\* week 0 computed again and again over the same three revenue rows while
\* their natural order changes
InitOrder ==
    /\ ownerships = <<row("M1", "A", NoDate), row("M2", "B", NoDate),
                      row("M3", "C", NoDate)>>
    /\ bonuses = <<>>
    /\ clock = 0
    /\ Idle
    /\ league = DefaultLeague
    /\ season = DefaultSeason
    /\ \E g \in [Movies -> Grosses] :
          revenues = revenueTable(g, <<DefaultSeason.startDate>>)
    /\ NoSnapshots

NextOrder ==
    \/ \E f \in Orderings(Cardinality(Movies)) : naturalOrderChanges(f)
    \/ computeWeek("p1", "owner", "S1", weekIndexParam(0))
    \/ computeWeekService("p1", "S1", 0)

SpecOrder == InitOrder /\ [][NextOrder]_vars

\* week computations of the controller and of the legacy route over a league
\* of up to nine studios, one movie each: more studios than the default
\* points table has entries
TableStudios == <<"A", "B", "C", "D", "E", "F", "G", "H", "I">>
TableMovies  == <<"M1", "M2", "M3", "M4", "M5", "M6", "M7", "M8", "M9">>

tableLedger(n) ==
    [i \in 1..n |-> row(TableMovies[i], TableStudios[i], NoDate)]

TableGrosses ==
    {[domesticGross |-> 30, worldwideGross |-> 10],
     [domesticGross |-> 20, worldwideGross |-> 20],
     [domesticGross |-> 10, worldwideGross |-> 30]}

tableRevenues(g) ==
    [i \in 1..Len(g) |->
        [movieId |-> TableMovies[i], weekStart |-> DefaultSeason.startDate,
         domesticGross |-> g[i].domesticGross,
         worldwideGross |-> g[i].worldwideGross]]

InitTable ==
    /\ ownerships \in {tableLedger(n) : n \in 7..Len(TableStudios)}
    /\ bonuses = <<>>
    /\ clock = 0
    /\ Idle
    /\ league = DefaultLeague
    /\ season = DefaultSeason
    /\ \E g \in [1..Len(TableMovies) -> TableGrosses] :
          /\ \A i \in 4..Len(TableMovies) : g[i].worldwideGross # 20
          /\ revenues = tableRevenues(g)
    /\ NoSnapshots

NextTable ==
    \/ \E u \in ComputeUsers : computeWeek("p1", u, "S1", weekIndexParam(0))
    \/ \E u \in ComputeUsers :
          computeWeekLegacy("p1", u, "S1", weekIndexParam(0))

SpecTable == InitTable /\ [][NextTable]_vars

\* week computations in leagues whose pointsScheme is custom: the table holds
\* entries for some of the ranks 1..3, inserted in any order
CustomPoints == <<10, 7, 4>>

CustomTables ==
    {t \in UNION {[1..n -> [key : 1..Len(CustomPoints), points : {10, 7, 4}]] :
                     n \in 0..Len(CustomPoints)} :
        /\ \A i \in 1..Len(t) : t[i].points = CustomPoints[t[i].key]
        /\ \A i, k \in 1..Len(t) : t[i].key = t[k].key => i = k}

customLeague(t) ==
    [ownerId |-> "owner", commissionerIds |-> {},
     timezone |-> DefaultLeague.timezone,
     pointsScheme |-> "custom",
     customPointTable |-> t,
     awardCategories |-> DefaultLeague.awardCategories]

InitCustom ==
    /\ ownerships \in {tableLedger(n) : n \in 2..3}
    /\ bonuses = <<>>
    /\ clock = 0
    /\ Idle
    /\ league \in {customLeague(t) : t \in CustomTables}
    /\ season = DefaultSeason
    /\ \E g \in [Movies -> Grosses] :
          revenues = revenueTable(g, <<DefaultSeason.startDate>>)
    /\ NoSnapshots

NextCustom ==
    \/ \E u \in ComputeUsers : computeWeek("p1", u, "S1", weekIndexParam(0))
    \/ \E u \in ComputeUsers :
          computeWeekLegacy("p1", u, "S1", weekIndexParam(0))

SpecCustom == InitCustom /\ [][NextCustom]_vars

\* week computations asked for by the owner, a commissioner and plain users,
\* for the season and for an id no season has
AuthSeasons == {"S1", "S2"}

AuthLeagues ==
    {DefaultLeague, [DefaultLeague EXCEPT !.commissionerIds = {"ub"}]}

InitAuth ==
    /\ ownerships \in {tableLedger(n) : n \in 1..3}
    /\ bonuses = <<>>
    /\ clock = 0
    /\ Idle
    /\ league \in AuthLeagues
    /\ season = DefaultSeason
    /\ \E g \in [Movies -> Grosses] :
          revenues = revenueTable(g, [k \in 1..(MaxWeekIndex + 1) |->
                                         DefaultSeason.startDate
                                         + (k - 1) * MsPerWeek])
    /\ NoSnapshots

NextAuth ==
    \/ \E u \in Users, s \in AuthSeasons, w \in WeekIndices :
          computeWeek("p1", u, s, weekIndexParam(w))
    \/ \E u \in Users, s \in AuthSeasons, w \in WeekIndices :
          computeWeekLegacy("p1", u, s, weekIndexParam(w))

SpecAuth == InitAuth /\ [][NextAuth]_vars

\* week computations and season updates, one request at a time
SeasonStarts == {DefaultSeason.startDate, DefaultSeason.startDate + MsPerDay}

NextSeason ==
    \/ \E u \in ComputeUsers, w \in WeekIndices :
          computeWeek("p1", u, "S1", weekIndexParam(w))
    \/ \E u \in ComputeUsers, s \in AuthSeasons,
          d \in SeasonStarts \cup {NoDate} :
          updateSeason("p1", u, s, d)

SpecSeason == InitAuth /\ [][NextSeason]_vars

\* week computations of the service over leagues of up to six studios, one
\* movie each, with three domestic grosses: tie blocks of every size up to six
TieStudios == 6

InitTies ==
    /\ ownerships \in {tableLedger(n) : n \in 0..TieStudios}
    /\ bonuses = <<>>
    /\ clock = 0
    /\ Idle
    /\ league = DefaultLeague
    /\ season = DefaultSeason
    /\ \E g \in [1..TieStudios -> TableGrosses] : revenues = tableRevenues(g)
    /\ NoSnapshots

NextTies == computeWeekService("p1", "S1", 0)

SpecTies == InitTies /\ [][NextTies]_vars

----------------------------------------------------------------------------
(* Ownership ledger: claims *)

hasOwnershipRow(seasonId, movieId) ==
    \E i \in 1..Len(ownerships) :
        ownerships[i].seasonId = seasonId /\ ownerships[i].movieId = movieId

\* C1: there is at most one MovieOwnership row per (seasonId, movieId), and
\* an acquire whose existence check runs while the pair has a row (active or
\* retired, of any studio) answers Conflict and creates no row.
C1_OneRowPerSeasonMovie ==
    /\ [](\A i, j \in 1..Len(ownerships) :
            (ownerships[i].seasonId = ownerships[j].seasonId
             /\ ownerships[i].movieId = ownerships[j].movieId) => i = j)
    /\ [][\A p \in Procs :
            (createOwnershipFindExisting(p)
             /\ hasOwnershipRow(req[p].seasonId, req[p].movieId))
            => (result'[p] = "Conflict" /\ pc'[p] = "done"
                /\ ownerships' = ownerships)]_vars

\* a second acquire of a retired movie by the other studio was answered Conflict
C1_Witness ==
    \E p \in Procs, i \in 1..Len(ownerships) :
        /\ pc[p] = "done" /\ req[p].op = "acquire" /\ result[p] = "Conflict"
        /\ ownerships[i].movieId = req[p].movieId
        /\ ownerships[i].seasonId = req[p].seasonId
        /\ ownerships[i].retiredAt # NoDate
        /\ ownerships[i].studioId # req[p].studioId
        /\ Len(ownerships) = 1

\* C2: of two acquire requests racing for the same (seasonId, movieId), one
\* creates the row and the other ends with Conflict; every acquire that got
\* past the guard and the membership check ends Created or Conflict.
C2_RaceLoserGetsConflict ==
    \A p \in Procs :
        (pc[p] = "done" /\ req[p].op = "acquire")
        => result[p] \in {"Created", "Conflict", "Forbidden", "WindowLocked"}

\* C3: retireOwnership on a row whose retiredAt is set answers Conflict and
\* leaves the ledger, retiredAt included, as it was.
C3_RetireRetiredIsConflict ==
    [][\A p \in Procs, u \in LedgerUsers, id \in 1..Len(ownerships),
          now \in RetireTimes :
          (retireOwnershipLoad(p, u, id, now) /\ ownerships[id].retiredAt # NoDate)
          => (result'[p] = "Conflict" /\ pc'[p] = "done"
              /\ ownerships' = ownerships)]_vars

\* a retire request on a retired row was answered Conflict
C3_Witness ==
    \E p \in Procs :
        /\ pc[p] = "done" /\ req[p].op = "retire" /\ result[p] = "Conflict"
        /\ ownerships[req[p].id].retiredAt # NoDate
        /\ ownerships[req[p].id].retiredAt = req[p].doc.retiredAt

----------------------------------------------------------------------------
(* Acquisition window guard: claims *)

\* the documented policy: Tuesday, Wednesday, and Thursday before 20:00
policyAllows(now) ==
    \/ now.weekday = 2
    \/ now.weekday = 3
    \/ (now.weekday = 4 /\ now.hour < 20)

\* C8: the guard passes an acquire request exactly at the times the policy
\* allows (Tue, Wed, Thu before 20:00) and blocks it from Thursday 20:00
\* through Monday 23:59.
C8_GuardFollowsPolicy ==
    \A p \in Procs :
        req[p].op = "acquire"
        => ((result[p] # "WindowLocked") <=> policyAllows(req[p].now))

\* C9: an acquire arriving on Saturday, Sunday or Monday is answered
\* WindowLocked at once and leaves the ledger untouched; one arriving on
\* Tuesday or Wednesday is passed on by the guard.
C9_WeekendLockedMidweekOpen ==
    /\ [](\A p \in Procs :
            req[p].op = "acquire"
            => /\ req[p].now.weekday \in {6, 7, 1}
                  => (result[p] = "WindowLocked" /\ pc[p] = "done")
               /\ req[p].now.weekday \in {2, 3} => result[p] # "WindowLocked")
    /\ [][\A p \in Procs :
            (req'[p] # req[p] /\ req'[p].op = "acquire"
             /\ req'[p].now.weekday \in {6, 7, 1})
            => ownerships' = ownerships]_vars

\* Saturday 10:00 was locked out while the ledger already held a row
C9_Witness ==
    \E p \in Procs :
        /\ req[p].op = "acquire" /\ result[p] = "WindowLocked"
        /\ req[p].now = [weekday |-> 6, hour |-> 10]
        /\ Len(ownerships) = 1

----------------------------------------------------------------------------
(* Award bonus applier: claims *)

sameBonusTuple(a, b) ==
    /\ a.seasonId = b.seasonId /\ a.studioId = b.studioId
    /\ a.movieId = b.movieId /\ a.categoryKey = b.categoryKey
    /\ a.result = b.result

----------------------------------------------------------------------------
(* Week windows: claims *)

serviceWindow(w) ==
    [weekStart |-> serviceWeekStart(league.timezone, season.startDate, w),
     weekEnd   |-> serviceWeekEnd(league.timezone, season.startDate, w)]

\* every StudioWeeklyRevenue row carries the window one of the two
\* computations derives for its week
storedWindowsAreComputed ==
    \A r \in studioWeeklyRevenue :
        [weekStart |-> r.weekStart, weekEnd |-> r.weekEnd]
           \in {computeWeekWindow(season.startDate, r.weekIndex),
                serviceWindow(r.weekIndex)}

\* C7 as stated: every week window, and so every stored row's, spans exactly
\* 7 days minus 1 ms of absolute time, and each week starts 1 ms after the
\* previous week's end.
C7_WindowIsSevenDaysOfMs ==
    /\ storedWindowsAreComputed
    /\ \A w \in WeekIndices :
          /\ computeWeekWindow(season.startDate, w).weekEnd
                - computeWeekWindow(season.startDate, w).weekStart = MsPerWeek - 1
          /\ serviceWindow(w).weekEnd - serviceWindow(w).weekStart = MsPerWeek - 1
    /\ \A w \in 0..(MaxWeekIndex - 1) :
          /\ computeWeekWindow(season.startDate, w + 1).weekStart
                = computeWeekWindow(season.startDate, w).weekEnd + 1
          /\ serviceWindow(w + 1).weekStart = serviceWindow(w).weekEnd + 1

\* C7, amended: computeWeekWindow spans exactly 7 days minus 1 ms; the
\* service's window spans 7 days minus 1 ms of league-local wall-clock time,
\* which in absolute time is shorter or longer by the change of the zone's
\* UTC offset inside the week; in both, each week starts 1 ms after the
\* previous week's end, and every stored row carries one of these windows.
C7_WindowIsSevenLocalDays ==
    /\ storedWindowsAreComputed
    /\ \A w \in WeekIndices :
          LET c  == computeWeekWindow(season.startDate, w)
              s  == serviceWindow(w)
              tz == league.timezone
          IN  /\ c.weekEnd - c.weekStart = MsPerWeek - 1
              /\ toLocal(tz, s.weekEnd) - toLocal(tz, s.weekStart) = MsPerWeek - 1
              /\ s.weekEnd - s.weekStart
                    = MsPerWeek - 1
                      - (offsetAt(tz, s.weekEnd) - offsetAt(tz, s.weekStart))
              /\ toLocal(tz, s.weekStart) % MsPerDay = 0
              /\ weekdayOf(tz, s.weekStart) = 2
    /\ \A w \in 0..(MaxWeekIndex - 1) :
          /\ computeWeekWindow(season.startDate, w + 1).weekStart
                = computeWeekWindow(season.startDate, w).weekEnd + 1
          /\ serviceWindow(w + 1).weekStart = serviceWindow(w).weekEnd + 1

\* the service stored weeks 0 and 1 of a studio back to back, one of them an
\* hour off 7 days minus 1 ms because the league's clocks changed in it
C7_Witness ==
    \E r0, r1 \in studioWeeklyRevenue :
        /\ r0.studioId = r1.studioId
        /\ r0.weekIndex = 0 /\ r1.weekIndex = 1
        /\ r1.weekStart = r0.weekEnd + 1
        /\ r1.weekEnd - r1.weekStart # MsPerWeek - 1
        /\ r0.weekEnd - r0.weekStart = MsPerWeek - 1

----------------------------------------------------------------------------
(* Ranking and idempotence: claims *)

rankingOf(seasonId, weekIndex) ==
    {d \in weeklyRanking : d.seasonId = seasonId /\ d.weekIndex = weekIndex}

\* C4: in every stored ranking, studios with equal revenue share the rank
\* of the first place they occupy (one plus the number of studios with more
\* revenue, so [100, 100, 50] ranks [1, 1, 3]) and receive the same points.
C4_TiesShareRankAndPoints ==
    \A d \in weeklyRanking :
        \A i \in 1..Len(d.rows) :
            /\ d.rows[i].rank
                  = 1 + Cardinality({k \in 1..Len(d.rows) :
                                        d.rows[k].revenue > d.rows[i].revenue})
            /\ \A k \in 1..Len(d.rows) :
                  d.rows[k].revenue = d.rows[i].revenue
                  => d.rows[k].points = d.rows[i].points

RECURSIVE sumPoints(_)
sumPoints(rows) ==
    IF rows = <<>> THEN 0 ELSE Head(rows).points + sumPoints(Tail(rows))

\* C5: when the service has ranked N studios of pairwise distinct revenue,
\* the ranks are 1..N, the points are 2N, 2N-2, ..., 2 in rank order, and
\* they add up to N(N+1).
C5_LinearPoints ==
    \A p \in Procs :
        (req[p].op = "computeWeekService" /\ result[p] = "Returned")
        => \A d \in rankingOf(req[p].seasonId, req[p].weekIndex) :
              LET N == Len(d.rows)
              IN  (\A i, k \in 1..N : i # k => d.rows[i].revenue # d.rows[k].revenue)
                  => /\ \A i \in 1..N : /\ d.rows[i].rank = i
                                        /\ d.rows[i].points = 2 * N - 2 * (i - 1)
                     /\ \A i \in 1..(N - 1) : d.rows[i].revenue > d.rows[i + 1].revenue
                     /\ sumPoints(d.rows) = N * (N + 1)

\* the service ranked three studios of distinct revenue: 6, 4 and 2 points
C5_Witness ==
    \E p \in Procs :
        /\ req[p].op = "computeWeekService" /\ result[p] = "Returned"
        /\ \E d \in rankingOf(req[p].seasonId, req[p].weekIndex) :
              /\ Len(d.rows) = 3
              /\ d.rows[1].revenue > d.rows[2].revenue
              /\ d.rows[2].revenue > d.rows[3].revenue
              /\ <<d.rows[1].points, d.rows[2].points, d.rows[3].points>> = <<6, 4, 2>>

----------------------------------------------------------------------------
(* Attribution of revenue: claims *)

\* the week window and the movie-to-studio map of the computation `r` asked for
windowOfReq(r) ==
    IF r.op = "computeWeek"
       THEN computeWeekWindow(season.startDate, r.weekIndex)
       ELSE serviceWindow(r.weekIndex)

mappingOfReq(r) ==
    IF r.op = "computeWeek"
       THEN movieToStudio(ownerships, r.seasonId)
       ELSE ownerByMovie(ownerships, r.seasonId,
                         windowOfReq(r).weekStart, windowOfReq(r).weekEnd)

computed(p) ==
    /\ req[p].op \in {"computeWeek", "computeWeekService"}
    /\ result[p] \in {"Created", "Returned"}

\* indices of the revenue rows of the window whose movie is mapped to `st`
attributedTo(r, st) ==
    LET window == windowOfReq(r)
        mapping == mappingOfReq(r)
    IN  {i \in 1..Len(revenues) :
            /\ revenues[i].weekStart >= window.weekStart
            /\ revenues[i].weekStart <= window.weekEnd
            /\ revenues[i].movieId \in DOMAIN mapping
            /\ mapping[revenues[i].movieId] = st}

RECURSIVE sumDomestic(_)
sumDomestic(I) ==
    IF I = {} THEN 0
    ELSE LET i == CHOOSE i \in I : TRUE
         IN  revenues[i].domesticGross + sumDomestic(I \ {i})

RECURSIVE sumWorldwide(_)
sumWorldwide(I) ==
    IF I = {} THEN 0
    ELSE LET i == CHOOSE i \in I : TRUE
         IN  revenues[i].worldwideGross + sumWorldwide(I \ {i})

\* C11: right after a week computation, every studio with revenue rows mapped
\* to it in the week's window has exactly one StudioWeeklyRevenue row for the
\* week, whose totalDomesticGross and totalWorldwideGross are the sums of
\* those rows' grosses; rows of unmapped movies enter no total.
C11_TotalsAreSums ==
    \A p \in Procs :
        computed(p)
        => \A st \in Studios :
              attributedTo(req[p], st) # {}
              => \E r \in studioWeeklyRevenue :
                    /\ swrKeyMatches(r, req[p].seasonId, req[p].weekIndex, st)
                    /\ r.totalDomesticGross = sumDomestic(attributedTo(req[p], st))
                    /\ r.totalWorldwideGross = sumWorldwide(attributedTo(req[p], st))

\* C12: right after a week computation, every studio in the week's ranking
\* holds an ownership row with acquiredAt <= weekEnd and retiredAt unset or
\* >= weekStart for a movie with revenue in the week.
C12_OnlyOverlappingOwnership ==
    \A p \in Procs :
        computed(p)
        => \A d \in rankingOf(req[p].seasonId, req[p].weekIndex) :
              \A k \in 1..Len(d.rows) :
                 \E i \in 1..Len(ownerships), j \in 1..Len(revenues) :
                    /\ ownerships[i].studioId = d.rows[k].studioId
                    /\ ownerships[i].seasonId = req[p].seasonId
                    /\ ownerships[i].acquiredAt <= windowOfReq(req[p]).weekEnd
                    /\ (ownerships[i].retiredAt = NoDate
                        \/ ownerships[i].retiredAt >= windowOfReq(req[p]).weekStart)
                    /\ revenues[j].movieId = ownerships[i].movieId
                    /\ revenues[j].weekStart >= windowOfReq(req[p]).weekStart
                    /\ revenues[j].weekStart <= windowOfReq(req[p]).weekEnd

----------------------------------------------------------------------------
(* Retire and the acquisition window: claims *)

\* C19: a retire request arriving at a league-local time at which the guard
\* denies acquisition is denied: it never ends Retired (and so never sets
\* retiredAt).
C19_RetireBlockedLikeAcquire ==
    \A p \in Procs :
        (req[p].op = "retire" /\ ~allowed(req[p].now))
        => result[p] # "Retired"

----------------------------------------------------------------------------
(* Award bonus applier, rejections: claims *)

categoryEnabled(categoryKey) ==
    \E i \in 1..Len(league.awardCategories) :
        /\ league.awardCategories[i].key = categoryKey
        /\ league.awardCategories[i].enabled

\* C18: an apply request (a step of a free process that takes up an award
\* request) whose category key is absent from or disabled in the league's
\* awardCategories is rejected at once, one whose movie has no
\* ownership row in the season is rejected by the ownership lookup, neither
\* adds an AwardBonus row, and so no stored row has such a category or movie.
C18_RejectsDisabledAndUnowned ==
    /\ [](\A i \in 1..Len(bonuses) :
            /\ categoryEnabled(bonuses[i].categoryKey)
            /\ hasOwnershipRow(bonuses[i].seasonId, bonuses[i].movieId))
    /\ [][\A p \in Procs :
            /\ (/\ Free(p)
                /\ <<pc[p], req[p], result[p]>>' # <<pc[p], req[p], result[p]>>
                /\ req'[p].op = "award"
                /\ ~categoryEnabled(req'[p].categoryKey))
               => (/\ pc'[p] = "done"
                   /\ result'[p] \in {"BadRequest", "Forbidden"}
                   /\ bonuses' = bonuses)
            /\ (/\ applyAwardBonusFindOwnership(p)
                /\ ~hasOwnershipRow(req[p].seasonId, req[p].movieId))
               => (/\ pc'[p] = "done"
                   /\ result'[p] = "BadRequest"
                   /\ bonuses' = bonuses)]_vars

\* the league owner was turned down once for a disabled category and once
\* for a movie nobody owns, and no bonus was stored
C18_Witness ==
    \E p, q \in Procs :
        /\ req[p].op = "award" /\ req[p].userId = "owner"
        /\ req[p].categoryKey = "bestSound" /\ result[p] = "BadRequest"
        /\ req[q].op = "award" /\ req[q].userId = "owner"
        /\ req[q].categoryKey = "bestPicture" /\ result[q] = "BadRequest"
        /\ ~hasOwnershipRow(req[q].seasonId, req[q].movieId)
        /\ bonuses = <<>>

----------------------------------------------------------------------------
(* A week without attributable revenue: claims *)

nothingAttributable(r) ==
    LET window == windowOfReq(r)
        mapping == mappingOfReq(r)
    IN  \A i \in 1..Len(revenues) :
           \/ revenues[i].weekStart < window.weekStart
           \/ revenues[i].weekStart > window.weekEnd
           \/ revenues[i].movieId \notin DOMAIN mapping

\* C17: a week computation that finds no revenue attributable to any studio
\* succeeds, stores the week's WeeklyRanking with empty rows, and writes no
\* StudioWeeklyRevenue row.
C17_EmptyWeekGivesEmptyRanking ==
    /\ [](\A p \in Procs :
            (req[p].op \in {"computeWeek", "computeWeekService"}
             /\ result[p] \notin {"NotFound", "Forbidden", "ValidationFailed"}
             /\ nothingAttributable(req[p]))
            => /\ computed(p)
               /\ \E d \in rankingOf(req[p].seasonId, req[p].weekIndex) :
                     d.rows = <<>>
               /\ Cardinality(rankingOf(req[p].seasonId, req[p].weekIndex)) = 1)
    /\ [][\A p \in Procs :
            (computed(p)' /\ nothingAttributable(req'[p]))
            => studioWeeklyRevenue' = studioWeeklyRevenue]_vars

\* week 0 was computed over revenue rows whose movies nobody owns: an empty
\* ranking and no studio totals
C17_Witness ==
    \E p \in Procs :
        /\ computed(p) /\ req[p].weekIndex = 0
        /\ ownerships = <<>>
        /\ \E j \in 1..Len(revenues) :
              revenues[j].weekStart = windowOfReq(req[p]).weekStart
        /\ rankingOf(req[p].seasonId, 0)
              = {[seasonId |-> req[p].seasonId, weekIndex |-> 0, rows |-> <<>>]}
        /\ studioWeeklyRevenue = {}

----------------------------------------------------------------------------
(* Week index validation: claims *)

\* the parameter denotes no number, a number with a fraction, or one below 0
notAWeekIndex(param) ==
    \/ Number(param).nan
    \/ ~Number(param).integer
    \/ Number(param).value < 0

\* C16: a week computation asked for with a :weekIndex that is not a
\* non-negative integer is answered with a validation error (422 by the
\* validated route, 400 by the legacy route) and leaves every
\* StudioWeeklyRevenue and WeeklyRanking row as it was; no stored row has a
\* negative weekIndex.
C16_InvalidWeekIndexRejected ==
    /\ [](/\ \A r \in studioWeeklyRevenue : r.weekIndex >= 0
          /\ \A d \in weeklyRanking : d.weekIndex >= 0)
    /\ [][\A p \in Procs :
            (/\ <<pc[p], req[p], result[p]>>' # <<pc[p], req[p], result[p]>>
             /\ req'[p].op \in {"computeWeek", "computeWeekLegacy"}
             /\ notAWeekIndex(req'[p].param))
            => /\ result'[p] = IF req'[p].op = "computeWeek"
                                  THEN "ValidationFailed" ELSE "BadRequest"
               /\ studioWeeklyRevenue' = studioWeeklyRevenue
               /\ weeklyRanking' = weeklyRanking]_vars

\* "-1" was turned down with week 0 already computed and left in place
C16_Witness ==
    \E p \in Procs :
        /\ req[p].op = "computeWeek" /\ req[p].param = <<"-", "1">>
        /\ result[p] = "ValidationFailed"
        /\ rankingOf("S1", 0) # {}
        /\ \E r \in studioWeeklyRevenue : r.weekIndex = 0

----------------------------------------------------------------------------
(* Snapshots after a recompute: claims *)

\* C13: right after a week computation, also one that follows a change of
\* the inputs, the studios with a StudioWeeklyRevenue row for the week are
\* exactly the studios of the week's ranking, and each row holds the total
\* the ranking was built from.
C13_OnlyLatestState ==
    \A p \in Procs :
        computed(p)
        => \A d \in rankingOf(req[p].seasonId, req[p].weekIndex) :
              /\ {r.studioId : r \in {x \in studioWeeklyRevenue :
                                        /\ x.seasonId = req[p].seasonId
                                        /\ x.weekIndex = req[p].weekIndex}}
                    = {d.rows[k].studioId : k \in 1..Len(d.rows)}
              /\ \A k \in 1..Len(d.rows) :
                    \E r \in studioWeeklyRevenue :
                       /\ swrKeyMatches(r, req[p].seasonId, req[p].weekIndex,
                                        d.rows[k].studioId)
                       /\ d.rows[k].revenue =
                             IF req[p].op = "computeWeek"
                                THEN r.totalWorldwideGross
                                ELSE r.totalDomesticGross

----------------------------------------------------------------------------
(* Interleaved and interrupted week computations: claims *)

EmptyStore == [swr |-> {}, wr |-> {}]

\* the store after the call `r` has written all it computed, on top of `store`
writtenBy(store, r) ==
    [swr |-> upsertAllTotals(store.swr, r.seasonId, r.weekIndex, r.window, r.totals),
     wr  |-> upsertRanking(store.wr, r.seasonId, r.weekIndex,
                           rankByPosition(r.totals, pointsTableOf(league)))]

\* C14: once two computeWeek calls for the same week have both answered, the
\* week has one WeeklyRanking row and at most one StudioWeeklyRevenue row
\* per studio, and the rows are those one call alone writes, or those the two
\* calls write one after the other: never a mixture.
C14_LastWriterWinsWhole ==
    \A p, q \in Procs :
        (/\ p # q /\ computed(p) /\ computed(q)
         /\ pc[p] = "done" /\ pc[q] = "done"
         /\ req[p].weekIndex = req[q].weekIndex)
        => /\ Cardinality(weeklyRanking) = 1
           /\ \A r1, r2 \in studioWeeklyRevenue :
                 r1.studioId = r2.studioId => r1 = r2
           /\ [swr |-> studioWeeklyRevenue, wr |-> weeklyRanking]
                 \in {writtenBy(EmptyStore, req[p]),
                      writtenBy(EmptyStore, req[q]),
                      writtenBy(writtenBy(EmptyStore, req[p]), req[q]),
                      writtenBy(writtenBy(EmptyStore, req[q]), req[p])}

\* the StudioWeeklyRevenue rows and the ranking an unbroken computation of
\* week w writes into an empty store
uninterruptedRun(w) ==
    LET r == [op |-> "computeWeek", seasonId |-> season.seasonId, weekIndex |-> w]
    IN  [swr |-> {[seasonId |-> r.seasonId, weekIndex |-> w, studioId |-> st,
                   weekStart |-> windowOfReq(r).weekStart,
                   weekEnd |-> windowOfReq(r).weekEnd,
                   totalDomesticGross |-> sumDomestic(attributedTo(r, st)),
                   totalWorldwideGross |-> sumWorldwide(attributedTo(r, st))] :
                     st \in {x \in Studios : attributedTo(r, x) # {}}},
         wr  |-> {[seasonId |-> r.seasonId, weekIndex |-> w,
                   rows |-> rankByPosition(
                               perStudioTotals(
                                  SelectSeq(revenues,
                                     LAMBDA x : /\ x.weekStart >= windowOfReq(r).weekStart
                                                /\ x.weekStart <= windowOfReq(r).weekEnd),
                                  movieToStudio(ownerships, r.seasonId), <<>>),
                               pointsTableOf(league))]}]

\* C15: a computeWeek that breaks off answers with an error and changes no
\* row at that point, so the rows it had upserted stay; and whenever a
\* computeWeek has succeeded, whatever broke off before it, the week's rows
\* are those of an unbroken run over the same inputs.
C15_FailureLeavesRowsRerunRepairs ==
    /\ [][\A p \in Procs :
            (pc[p] \in {"cmpOwnerships", "cmpRevenues", "cmpUpsert", "cmpRanking"}
             /\ pc'[p] = "done" /\ result'[p] # "Created")
            => /\ result'[p] = "InternalError"
               /\ studioWeeklyRevenue' = studioWeeklyRevenue
               /\ weeklyRanking' = weeklyRanking]_vars
    /\ [](\A p \in Procs :
            (computed(p) /\ pc[p] = "done")
            => /\ {r \in studioWeeklyRevenue : r.weekIndex = req[p].weekIndex}
                     = uninterruptedRun(req[p].weekIndex).swr
               /\ rankingOf(req[p].seasonId, req[p].weekIndex)
                     = uninterruptedRun(req[p].weekIndex).wr)

\* a computation of three studios' totals broke off after its first upsert:
\* that row is stored, the others and the ranking are not
C15_Witness ==
    \E p \in Procs :
        /\ req[p].op = "computeWeek" /\ result[p] = "InternalError"
        /\ Len(req[p].totals) = 3 /\ req[p].upserts = 1
        /\ \E r \in studioWeeklyRevenue :
              swrKeyMatches(r, req[p].seasonId, req[p].weekIndex,
                            req[p].totals[1].studioId)
        /\ ~\E r \in studioWeeklyRevenue :
              swrKeyMatches(r, req[p].seasonId, req[p].weekIndex,
                            req[p].totals[2].studioId)
        /\ rankingOf(req[p].seasonId, req[p].weekIndex) = {}

----------------------------------------------------------------------------
(* Determinism of the ranking: claims *)

\* the (studio, rank, points) triples of the stored rankings
ranksAndPoints(docs) ==
    UNION {{[seasonId |-> d.seasonId, weekIndex |-> d.weekIndex,
             studioId |-> d.rows[k].studioId, rank |-> d.rows[k].rank,
             points |-> d.rows[k].points] : k \in 1..Len(d.rows)} : d \in docs}

revenueRows == {revenues[i] : i \in 1..Len(revenues)}

\* C20: while the set of ownership and revenue rows stays the same, a
\* computation that repeats the one before it gives every studio the rank
\* and the points it had, in whatever order the store returns the rows.
C20_RankingIgnoresRowOrder ==
    [][\A p \in Procs :
          (/\ computed(p) /\ computed(p)'
           /\ req'[p] = req[p]
           /\ ownerships' = ownerships
           /\ revenueRows' = revenueRows)
          => ranksAndPoints(weeklyRanking)' = ranksAndPoints(weeklyRanking)]_vars

----------------------------------------------------------------------------
(* C21 *)

\* the StudioWeeklyRevenue rows of one studio for one week
totalsOf(seasonId, weekIndex, studioId) ==
    {s \in studioWeeklyRevenue : swrKeyMatches(s, seasonId, weekIndex, studioId)}

\* C21: the rows of every WeeklyRanking the controller writes under the
\* default table are in non-increasing order of revenue with ranks 1, 2, 3,
\* ... in that order; each row's revenue is the totalWorldwideGross of the
\* studio's StudioWeeklyRevenue row of the week; the row at position i has the
\* points 10, 8, 6, 5, 4, 3, 2, 1 for i = 1..8 and 0 for i > 8.
C21_RowsSortedRankedAndPointed ==
    league.pointsScheme = "optionB" =>
       \A d \in weeklyRanking : \A i \in 1..Len(d.rows) :
          /\ d.rows[i].rank = i
          /\ i < Len(d.rows) => d.rows[i].revenue >= d.rows[i + 1].revenue
          /\ \A s \in totalsOf(d.seasonId, d.weekIndex, d.rows[i].studioId) :
                s.totalWorldwideGross = d.rows[i].revenue
          /\ Cardinality(totalsOf(d.seasonId, d.weekIndex,
                                  d.rows[i].studioId)) = 1
          /\ d.rows[i].points =
                IF i <= 8 THEN <<10, 8, 6, 5, 4, 3, 2, 1>>[i] ELSE 0

\* nine studios were ranked, the first ahead of the last by revenue, the
\* ninth without points
C21_Witness ==
    \E d \in weeklyRanking :
       /\ Len(d.rows) = 9
       /\ d.rows[1].revenue > d.rows[9].revenue
       /\ d.rows[8].points = 1
       /\ d.rows[9].points = 0

----------------------------------------------------------------------------
(* C22 *)

\* the points a rank-to-points map assigns to key r, 0 without an entry
customPointsOf(table, r) ==
    IF \E i \in 1..Len(table) : table[i].key = r
       THEN table[CHOOSE i \in 1..Len(table) : table[i].key = r].points
       ELSE 0

\* C22: in a league whose pointsScheme is custom, a week computation that
\* passes validation and authorization succeeds, and every stored ranking row
\* of rank r has the points the league's custom map assigns to key r (0 when
\* the map has no entry for r), whatever the insertion order of the map.
C22_CustomPointsByRankKey ==
    (league.pointsScheme = "custom" /\ "customPointTable" \in DOMAIN league) =>
       /\ \A d \in weeklyRanking : \A i \in 1..Len(d.rows) :
             d.rows[i].points =
                customPointsOf(league.customPointTable, d.rows[i].rank)
       /\ \A p \in Procs :
             (/\ req[p].op \in {"computeWeek", "computeWeekLegacy"}
              /\ result[p] \notin {"none", "ValidationFailed", "BadRequest",
                                   "NotFound", "Forbidden"})
             => result[p] = "Created"

----------------------------------------------------------------------------
(* C23 *)

\* process p's retire request for an existing row gets its response in this step
retireAnswered(p) ==
    /\ req'[p].op = "retire"
    /\ req'[p].doc # NoReq
    /\ pc'[p] = "done"
    /\ <<pc[p], req[p], result[p]>> # <<pc'[p], req'[p], result'[p]>>

\* the StudioOwner collection links the user to the studio of the row
memberOfOwningStudio(r) ==
    [studioId |-> r.doc.studioId, userId |-> r.userId] \in StudioOwner

\* C23 as stated: a retire request succeeds only when the acting user is a
\* member of the studio of the ownership row; a request of any other user is
\* answered Forbidden, and the ledger is left as it was.
C23_RetireOnlyByStudioMember ==
    [][\A p \in Procs :
          (retireAnswered(p) /\ ~memberOfOwningStudio(req'[p]))
          => (result'[p] = "Forbidden" /\ ownerships' = ownerships)]_vars

\* C23 as the code has it: a retire request succeeds only when the acting
\* user is a member of the studio of the ownership row; a request of any
\* other user leaves the ledger as it was and is answered Conflict when the
\* row it loaded was already retired, Forbidden otherwise.
C23_NonMemberNeverRetires ==
    [][\A p \in Procs :
          (retireAnswered(p) /\ ~memberOfOwningStudio(req'[p]))
          => /\ ownerships' = ownerships
             /\ result'[p] = IF req'[p].doc.retiredAt # NoDate
                                THEN "Conflict" ELSE "Forbidden"]_vars

\* a user outside the owning studio asked to retire an active row and was
\* answered Forbidden; the row is still active
C23_Witness ==
    \E p \in Procs :
       /\ req[p].op = "retire"
       /\ req[p].doc # NoReq
       /\ ~memberOfOwningStudio(req[p])
       /\ result[p] = "Forbidden"
       /\ ownerships[req[p].id].retiredAt = NoDate

----------------------------------------------------------------------------
(* C24 *)

\* C24: no step of acquire or retire deletes an ownership row or changes a
\* row's seasonId, movieId, studioId or acquiredAt; the only change to a row
\* is retire setting retiredAt, and a retiredAt that is set is never cleared
\* or changed again.
C24_RowsOnlyRetiredOnce ==
    [][/\ Len(ownerships') >= Len(ownerships)
       /\ \A i \in 1..Len(ownerships) :
             /\ [ownerships'[i] EXCEPT !.retiredAt = ownerships[i].retiredAt]
                   = ownerships[i]
             /\ ownerships[i].retiredAt # NoDate
                   => ownerships'[i].retiredAt = ownerships[i].retiredAt]_vars

----------------------------------------------------------------------------
(* C28 *)

\* C28: when two retire calls for the same active row both load it before
\* either saves, the call that comes to its save after the other has written
\* retiredAt is answered Conflict and writes nothing, so one call at most
\* succeeds and retiredAt is written once.
C28_SecondRetireIsConflict ==
    [][\A p \in Procs :
          (/\ pc[p] = "retSave"
           /\ pc'[p] # "retSave"
           /\ ownerships[req[p].id].retiredAt # NoDate)
          => (result'[p] = "Conflict" /\ ownerships' = ownerships)]_vars

----------------------------------------------------------------------------
(* C29 *)

\* the studios of the ownership rows of (seasonId, movieId), retired or not
studiosOfMovie(seasonId, movieId) ==
    {ownerships[i].studioId :
        i \in {k \in 1..Len(ownerships) :
                  /\ ownerships[k].seasonId = seasonId
                  /\ ownerships[k].movieId = movieId}}

\* C29: an award request for a movie that has an ownership row in the season,
\* retired or active, is never refused as unowned: its ownership lookup
\* resolves the studio of that row, and the bonus it creates credits that
\* studio.
C29_RetiredOwnerStillCredited ==
    [][\A p \in Procs :
          /\ (/\ pc[p] = "awdFindOwnership"
              /\ pc'[p] # "awdFindOwnership"
              /\ studiosOfMovie(req[p].seasonId, req[p].movieId) # {})
             => /\ pc'[p] = "awdFindExisting"
                /\ studiosOfMovie(req[p].seasonId, req[p].movieId)
                      = {req'[p].studioId}
          /\ (/\ pc[p] = "awdCreate"
              /\ pc'[p] = "done"
              /\ result'[p] = "Created")
             => /\ Len(bonuses') = Len(bonuses) + 1
                /\ studiosOfMovie(req[p].seasonId, req[p].movieId)
                      = {bonuses'[Len(bonuses')].studioId}
                /\ bonuses'[Len(bonuses')].movieId = req[p].movieId]_vars

\* a bonus was created for a movie whose only ownership row is retired, and
\* it credits the studio of that row
C29_Witness ==
    \E p \in Procs, i \in 1..Len(ownerships), k \in 1..Len(bonuses) :
       /\ req[p].op = "award"
       /\ result[p] = "Created"
       /\ ownerships[i].movieId = req[p].movieId
       /\ ownerships[i].retiredAt # NoDate
       /\ bonuses[k].movieId = ownerships[i].movieId
       /\ bonuses[k].studioId = ownerships[i].studioId

----------------------------------------------------------------------------
(* C25 *)

\* process p's week computation request gets its response in this step
computeAnswered(p) ==
    /\ req'[p].op \in {"computeWeek", "computeWeekLegacy"}
    /\ pc'[p] = "done"
    /\ <<pc[p], req[p], result[p]>> # <<pc'[p], req'[p], result'[p]>>

ownerOrCommissioner(userId) ==
    userId = league.ownerId \/ userId \in league.commissionerIds

\* C25: a week computation with a valid week index is answered NotFound when
\* no season has the id, and Forbidden when the season exists and the acting
\* user is neither the league's owner nor one of its commissioners; in both
\* cases every StudioWeeklyRevenue and WeeklyRanking row is left as it was.
C25_ForbiddenAndNotFoundWriteNothing ==
    [][\A p \in Procs :
          (computeAnswered(p) /\ ~notAWeekIndex(req'[p].param))
          => /\ req'[p].seasonId # season.seasonId
                => /\ result'[p] = "NotFound"
                   /\ studioWeeklyRevenue' = studioWeeklyRevenue
                   /\ weeklyRanking' = weeklyRanking
             /\ (/\ req'[p].seasonId = season.seasonId
                 /\ ~ownerOrCommissioner(req'[p].userId))
                => /\ result'[p] = "Forbidden"
                   /\ studioWeeklyRevenue' = studioWeeklyRevenue
                   /\ weeklyRanking' = weeklyRanking]_vars

----------------------------------------------------------------------------
(* C26 *)

\* a week of the season has been computed: a snapshot row exists for it
weekComputed(seasonId) ==
    \/ \E r \in studioWeeklyRevenue : r.seasonId = seasonId
    \/ \E d \in weeklyRanking : d.seasonId = seasonId

\* C26: once a StudioWeeklyRevenue or WeeklyRanking row exists for the
\* season, no step changes the season's startDate, and every stored
\* StudioWeeklyRevenue row's weekStart/weekEnd is the window computeWeekWindow
\* derives from the season's current startDate for the row's week.
C26_StartDateFrozenOnceComputed ==
    /\ [][weekComputed(season.seasonId)
             => season'.startDate = season.startDate]_vars
    /\ [](\A r \in studioWeeklyRevenue :
             [weekStart |-> r.weekStart, weekEnd |-> r.weekEnd]
                = computeWeekWindow(season.startDate, r.weekIndex))

----------------------------------------------------------------------------
(* C27 *)

\* C27: the points of a ranking the service stored for N studios add up to
\* N * (N + 1), whatever ties the revenues hold.
C27_TiesKeepPointTotal ==
    \A p \in Procs :
        (req[p].op = "computeWeekService" /\ result[p] = "Returned")
        => \A d \in rankingOf(req[p].seasonId, req[p].weekIndex) :
              sumPoints(d.rows) = Len(d.rows) * (Len(d.rows) + 1)

\* six studios were ranked in a block of three, a block of two and a single
\* studio
C27_Witness ==
    \E d \in weeklyRanking :
       /\ Len(d.rows) = 6
       /\ d.rows[1].rank = 1 /\ d.rows[3].rank = 1
       /\ d.rows[4].rank = 4 /\ d.rows[5].rank = 4
       /\ d.rows[6].rank = 6
       /\ d.rows[1].points = 10 /\ d.rows[4].points = 5 /\ d.rows[6].points = 2

----------------------------------------------------------------------------
(* C30 *)

\* the studios that revenue rows of the request's week map to
studiosWithRevenue(r) ==
    {st \in {ownerships[i].studioId : i \in 1..Len(ownerships)} :
        attributedTo(r, st) # {}}

\* process p's week computation succeeds in this step
computedNow(p) ==
    /\ req'[p].op \in {"computeWeek", "computeWeekService"}
    /\ result'[p] \in {"Created", "Returned"}
    /\ <<studioWeeklyRevenue, weeklyRanking, pc[p], req[p], result[p]>>
          # <<studioWeeklyRevenue', weeklyRanking', pc'[p], req'[p], result'[p]>>
    /\ ownerships' = ownerships /\ revenues' = revenues /\ season' = season

\* C30: after a week computation the week's ranking lists exactly the studios
\* that a revenue row of the week maps to, so N is their number, and no other
\* studio has a StudioWeeklyRevenue row for the week.
C30_OnlyStudiosWithRevenue ==
    [][\A p \in Procs :
          computedNow(p) =>
             LET r == req'[p]
             IN  /\ \A d \in weeklyRanking' :
                       (d.seasonId = r.seasonId /\ d.weekIndex = r.weekIndex)
                       => /\ {d.rows[k].studioId : k \in 1..Len(d.rows)}
                                = studiosWithRevenue(r)
                          /\ Len(d.rows) = Cardinality(studiosWithRevenue(r))
                 /\ \A s \in studioWeeklyRevenue' :
                       (s.seasonId = r.seasonId /\ s.weekIndex = r.weekIndex)
                       => s.studioId \in studiosWithRevenue(r)]_vars

====
